---- MODULE Spec2Model ----
(***************************************************************************)
(* Multi-provider response ingestion of the ComfyUI workflow agent panel   *)
(* (ui/src/App.tsx): the template resolver, the custom-API adapter, the    *)
(* cloud-SDK adapter and the orchestration-stream adapter.                 *)
(*                                                                         *)
(* Text is modelled character by character: a JavaScript string is a       *)
(* sequence of one-character strings.  A JSON value is a record            *)
(* [t |-> type tag, v |-> payload].                                        *)
(***************************************************************************)
EXTENDS Integers, Sequences, FiniteSets, TLC

VARIABLES
    templateStr,    \* resolveTemplate: argument templateStr
    vars,           \* resolveTemplate: argument vars, in Object.keys order
    result,         \* resolveTemplate: the returned string
    tpc,            \* resolveTemplate: "idle" | "ready" | "returned"
    settings,       \* AppSettings handed to the adapters
    prompt,         \* the prompt argument of the adapter call
    onStream,       \* TRUE iff a delta callback is supplied
    onStatus,       \* TRUE iff a status callback is supplied
    pc,             \* position of the adapter call
    net,            \* network requests / SDK calls issued so far, in order
    inbox,          \* what the transport has delivered and the call has not consumed
    buffer,         \* callPythonBackendStream: the partial-line buffer
    fullText,       \* accumulated text of the streaming adapters
    allSources,     \* callGoogleGemini: citations collected so far
    deltas,         \* arguments of the onStream invocations, in order
    statuses,       \* arguments of the onStatus invocations, in order
    calls,          \* the invocations of both callbacks, in the order made
    received,       \* what the call has taken from the transport: the response
                    \* body (custom), the chunk texts in order (cloud SDK), the
                    \* stream text read so far as one entry (orchestration)
    ret,            \* the value the call resolved with
    err,            \* the error the call rejected with
    textResponse,   \* sendMessageToComfyAgent: the text the adapter returned
    response,       \* what sendMessageToComfyAgent resolved with
    xpc,            \* "idle" | "parsing" | "resolved" | "done"
    workflow,       \* handleSendMessage: the workflow state
    canvas,         \* what applyToCanvas was last called with
    issues,         \* handleSendMessage: the issues state
    visualizerTab,  \* handleSendMessage: the visualizer tab state
    messages,       \* App: the messages state
    input,          \* App: the input state
    isProcessing,   \* App: the isProcessing state
    currentStatus,  \* App: the currentStatus state
    isVisible,      \* App: the isVisible state
    isSettingsOpen, \* App: the isSettingsOpen state
    executionErrorLog, \* App: the executionErrorLog state
    sessionIdRef,   \* App: sessionIdRef.current
    lastLoadedSessionId, \* App: lastLoadedSessionId.current
    rendered,       \* what the last render of App showed and its callbacks read
    flights,        \* the calls of sendMessageToComfyAgent made by handleSendMessage
    loads,          \* the session ids of the history fetches under way
    clock,          \* what Date.now() returns
    triggers,       \* the send triggers so far: what became of each, and whether a
                    \* call was under way
    edits           \* the number of steps that changed the canvas or the workflow or
                    \* closed the panel

templateVars == <<templateStr, vars, result, tpc>>
adapterVars == <<settings, prompt, onStream, onStatus, pc, net, inbox, buffer,
                 fullText, allSources, deltas, statuses, calls, received, ret, err>>
extractVars == <<textResponse, response, xpc, workflow, canvas, issues, visualizerTab>>
sessionVars == <<messages, input, isProcessing, currentStatus, isVisible, isSettingsOpen,
                 executionErrorLog, sessionIdRef, lastLoadedSessionId, rendered, flights,
                 loads, clock, triggers, edits>>
\* What a session of App leaves as it is.
idleVars == <<templateVars, prompt, onStream, onStatus, pc, net, inbox, buffer, fullText,
              allSources, deltas, statuses, calls, received, ret, err, textResponse, xpc>>
allVars == <<templateVars, adapterVars, extractVars, sessionVars>>

(***************************************************************************)
(* Strings                                                                 *)
(***************************************************************************)
StartsWithAt(s, i, p) ==
    /\ i >= 1
    /\ i + Len(p) - 1 <= Len(s)
    /\ SubSeq(s, i, i + Len(p) - 1) = p

startsWith(s, p) == StartsWithAt(s, 1, p)

RECURSIVE Flatten(_)
Flatten(ss) == IF ss = <<>> THEN <<>> ELSE Head(ss) \o Flatten(Tail(ss))

RECURSIVE Join(_, _)
Join(ss, sep) ==
    IF ss = <<>> THEN <<>>
    ELSE IF Len(ss) = 1 THEN ss[1]
    ELSE ss[1] \o sep \o Join(Tail(ss), sep)

WhiteSpace == {" ", "\n", "\t", "\r"}

Min(S) == CHOOSE x \in S : \A y \in S : x <= y
Max(S) == CHOOSE x \in S : \A y \in S : x >= y

\* The least element of a set of indices, 0 if there is none.
Least(S) == IF S = {} THEN 0 ELSE Min(S)

trim(s) ==
    LET inked == {i \in 1..Len(s) : s[i] \notin WhiteSpace}
    IN IF inked = {} THEN <<>> ELSE SubSeq(s, Min(inked), Max(inked))

\* First index >= i at which p occurs in s, 0 if none.
IndexOfFrom(s, p, i) == Least({j \in i..Len(s) : StartsWithAt(s, j, p)})

Contains(text, part) == IndexOfFrom(text, part, 1) > 0

(***************************************************************************)
(* JSON values                                                             *)
(***************************************************************************)
Str(s) == [t |-> "str", v |-> s]
Num(lexeme) == [t |-> "num", v |-> lexeme]
Bool(lexeme) == [t |-> "bool", v |-> lexeme]
Arr(items) == [t |-> "arr", v |-> items]
Obj(members) == [t |-> "obj", v |-> members]   \* members: sequence of [k, val]
Null == [t |-> "null", v |-> <<>>]
Undefined == [t |-> "undef", v |-> <<>>]
Member(k, val) == [k |-> k, val |-> val]

\* typeof val === 'object'
IsObjectType(val) == val.t \in {"arr", "obj", "null"}

\* JavaScript truthiness
Truthy(val) ==
    CASE val.t = "str" -> val.v # <<>>
      [] val.t = "num" -> val.v # <<"0">>
      [] val.t = "bool" -> val.v = <<"t", "r", "u", "e">>
      [] val.t \in {"arr", "obj"} -> TRUE
      [] OTHER -> FALSE

\* a || b
OrElse(a, b) == IF Truthy(a) THEN a ELSE b

\* val.k for a value on which property access does not throw
RECURSIVE LookupFrom(_, _, _)
LookupFrom(members, k, i) ==
    IF i = 0 THEN Undefined
    ELSE IF members[i].k = k THEN members[i].val
    ELSE LookupFrom(members, k, i - 1)

Get(val, k) == IF val.t = "obj" THEN LookupFrom(val.v, k, Len(val.v)) ELSE Undefined

\* val[0]
First(val) ==
    CASE val.t = "arr" -> IF val.v = <<>> THEN Undefined ELSE val.v[1]
      [] val.t = "str" -> IF val.v = <<>> THEN Undefined ELSE Str(<<val.v[1]>>)
      [] val.t = "obj" -> Get(val, <<"0">>)
      [] OTHER -> Undefined

\* property access on null or undefined throws a TypeError
Throws(val) == val.t \in {"null", "undef"}

\* String(val) of a value that is not an object
String(val) ==
    IF val.t = "undef" THEN <<"u", "n", "d", "e", "f", "i", "n", "e", "d">>
    ELSE val.v

Escaped(c) ==
    CASE c = "\"" -> <<"\\", "\"">>
      [] c = "\\" -> <<"\\", "\\">>
      [] c = "\n" -> <<"\\", "n">>
      [] c = "\t" -> <<"\\", "t">>
      [] c = "\r" -> <<"\\", "r">>
      [] OTHER -> <<c>>

RECURSIVE QuoteChars(_)
QuoteChars(s) ==
    LET i == Least({j \in 1..Len(s) : Escaped(s[j]) # <<s[j]>>})
    IN IF i = 0 THEN s
       ELSE SubSeq(s, 1, i - 1) \o Escaped(s[i]) \o QuoteChars(SubSeq(s, i + 1, Len(s)))

Quote(s) == <<"\"">> \o QuoteChars(s) \o <<"\"">>

NullText == <<"n", "u", "l", "l">>

\* JSON.stringify(val): compact, members in insertion order, undefined
\* members dropped, undefined array elements written as null.
RECURSIVE stringify(_), StringifyItems(_), StringifyMembers(_)
stringify(val) ==
    CASE val.t = "str" -> Quote(val.v)
      [] val.t \in {"num", "bool"} -> val.v
      [] val.t = "arr" -> <<"[">> \o Join(StringifyItems(val.v), <<",">>) \o <<"]">>
      [] val.t = "obj" -> <<"{">> \o Join(StringifyMembers(val.v), <<",">>) \o <<"}">>
      [] OTHER -> NullText

StringifyItems(items) ==
    IF items = <<>> THEN <<>>
    ELSE <<stringify(Head(items))>> \o StringifyItems(Tail(items))

StringifyMembers(members) ==
    IF members = <<>> THEN <<>>
    ELSE IF Head(members).val.t = "undef" THEN StringifyMembers(Tail(members))
    ELSE <<Quote(Head(members).k) \o <<":">> \o stringify(Head(members).val)>>
         \o StringifyMembers(Tail(members))

(***************************************************************************)
(* JSON.parse: a recursive-descent reader of objects, arrays, strings      *)
(* (escapes \" \\ \/ \n \t \r), numbers (sign, integer part, fraction) and *)
(* the literals true, false and null.  Any other text is a SyntaxError.    *)
(***************************************************************************)
Fail == [ok |-> FALSE, val |-> Undefined, next |-> 0]
Ok(val, next) == [ok |-> TRUE, val |-> val, next |-> next]

Digits == {"0", "1", "2", "3", "4", "5", "6", "7", "8", "9"}
TrueText == <<"t", "r", "u", "e">>
FalseText == <<"f", "a", "l", "s", "e">>

\* The first index >= i of s that holds a character outside the set cs
\* (Len(s) + 1 if there is none).
SkipOver(s, i, cs) ==
    IF i > Len(s) THEN i
    ELSE LET j == Least({n \in i..Len(s) : s[n] \notin cs})
         IN IF j = 0 THEN Len(s) + 1 ELSE j

SkipWs(s, i) == SkipOver(s, i, WhiteSpace)
SkipDigits(s, i) == SkipOver(s, i, Digits)

\* The characters of a string literal whose opening quote is at i - 1: read
\* up to the next quote, backslash or control character, and go on after
\* an escape.
RECURSIVE ParseChars(_, _, _)
ParseChars(s, i, acc) ==
    LET j == Least({n \in i..Len(s) : s[n] \in {"\"", "\\", "\n", "\t", "\r"}})
    IN IF j = 0 THEN Fail
       ELSE IF s[j] = "\"" THEN Ok(Str(acc \o SubSeq(s, i, j - 1)), j + 1)
       ELSE IF s[j] = "\\" /\ j + 1 <= Len(s) /\ s[j + 1] \in {"\"", "\\", "/", "n", "t", "r"}
       THEN ParseChars(s, j + 2,
                       acc \o SubSeq(s, i, j - 1)
                           \o (CASE s[j + 1] = "n" -> <<"\n">>
                                  [] s[j + 1] = "t" -> <<"\t">>
                                  [] s[j + 1] = "r" -> <<"\r">>
                                  [] OTHER -> <<s[j + 1]>>))
       ELSE Fail

ParseNumber(s, i) ==
    LET j0 == IF s[i] = "-" THEN i + 1 ELSE i
        intEnd == IF j0 <= Len(s) /\ s[j0] = "0" THEN j0 + 1 ELSE SkipDigits(s, j0)
        fracEnd == IF intEnd <= Len(s) /\ s[intEnd] = "."
                   THEN (LET k == SkipDigits(s, intEnd + 1)
                         IN IF k = intEnd + 1 THEN 0 ELSE k)
                   ELSE intEnd
    IN IF intEnd = j0 \/ fracEnd = 0 THEN Fail
       ELSE Ok(Num(SubSeq(s, i, fracEnd - 1)), fracEnd)

\* obj[k] = val on an object under construction: a repeated key keeps its
\* place and takes the later value.
Put(members, k, val) ==
    IF \E n \in 1..Len(members) : members[n].k = k
    THEN [n \in 1..Len(members) |->
             IF members[n].k = k THEN Member(k, val) ELSE members[n]]
    ELSE Append(members, Member(k, val))

RECURSIVE ParseValue(_, _), ParseElems(_, _, _), ParseMembers(_, _, _)
ParseValue(s, i) ==
    IF i > Len(s) THEN Fail
    ELSE CASE s[i] = "\"" -> ParseChars(s, i + 1, <<>>)
           [] s[i] = "[" ->
                LET j == SkipWs(s, i + 1)
                IN IF j <= Len(s) /\ s[j] = "]" THEN Ok(Arr(<<>>), j + 1)
                   ELSE ParseElems(s, j, <<>>)
           [] s[i] = "{" ->
                LET j == SkipWs(s, i + 1)
                IN IF j <= Len(s) /\ s[j] = "}" THEN Ok(Obj(<<>>), j + 1)
                   ELSE ParseMembers(s, j, <<>>)
           [] s[i] \in Digits \cup {"-"} -> ParseNumber(s, i)
           [] StartsWithAt(s, i, TrueText) -> Ok(Bool(TrueText), i + 4)
           [] StartsWithAt(s, i, FalseText) -> Ok(Bool(FalseText), i + 5)
           [] StartsWithAt(s, i, NullText) -> Ok(Null, i + 4)
           [] OTHER -> Fail

ParseElems(s, i, acc) ==
    LET Separator(r, j) ==
            IF j > Len(s) THEN Fail
            ELSE IF s[j] = "," THEN ParseElems(s, SkipWs(s, j + 1), Append(acc, r.val))
            ELSE IF s[j] = "]" THEN Ok(Arr(Append(acc, r.val)), j + 1)
            ELSE Fail
        Element(r) == IF ~r.ok THEN Fail ELSE Separator(r, SkipWs(s, r.next))
    IN Element(ParseValue(s, i))

ParseMembers(s, i, acc) ==
    LET Separator(k, r, j) ==
            IF j > Len(s) THEN Fail
            ELSE IF s[j] = "," THEN ParseMembers(s, SkipWs(s, j + 1), Put(acc, k.val.v, r.val))
            ELSE IF s[j] = "}" THEN Ok(Obj(Put(acc, k.val.v, r.val)), j + 1)
            ELSE Fail
        Value(k, r) == IF ~r.ok THEN Fail ELSE Separator(k, r, SkipWs(s, r.next))
        Colon(k, c) == IF c > Len(s) \/ s[c] # ":" THEN Fail
                       ELSE Value(k, ParseValue(s, SkipWs(s, c + 1)))
        Name(k) == IF ~k.ok THEN Fail ELSE Colon(k, SkipWs(s, k.next))
    IN IF i > Len(s) \/ s[i] # "\"" THEN Fail
       ELSE Name(ParseChars(s, i + 1, <<>>))

\* JSON.parse(s): ok = FALSE stands for the SyntaxError it throws.
JSONparse(s) ==
    LET Whole(r) == IF r.ok /\ SkipWs(s, r.next) > Len(s)
                    THEN [ok |-> TRUE, val |-> r.val]
                    ELSE [ok |-> FALSE, val |-> Undefined]
    IN Whole(ParseValue(s, SkipWs(s, 1)))

(***************************************************************************)
(* String.prototype.replace with a global regular expression and a string  *)
(* replacement.  A pattern is the sequence of atoms of the expression's    *)
(* source: \c matches the character c, an unescaped . any character, an    *)
(* unescaped $ the end of input and any other character itself.            *)
(***************************************************************************)
RegExpMeta == {".", "*", "+", "?", "^", "$", "{", "}", "(", ")", "|", "[", "]", "\\"}

\* str.replace(/[.*+?^${}()|[\]\\]/g, '\\$&')
RECURSIVE EscapeRegExp(_)
EscapeRegExp(str) ==
    LET i == Least({j \in 1..Len(str) : str[j] \in RegExpMeta})
    IN IF i = 0 THEN str
       ELSE SubSeq(str, 1, i - 1) \o <<"\\", str[i]>>
            \o EscapeRegExp(SubSeq(str, i + 1, Len(str)))

Lit(c) == [k |-> "lit", c |-> c]
AnyChar == [k |-> "any", c |-> "."]
EndOfInput == [k |-> "end", c |-> "$"]

\* new RegExp(source, 'g')
RECURSIVE RegExpAtoms(_)
RegExpAtoms(source) ==
    IF source = <<>> THEN <<>>
    ELSE IF Head(source) = "\\" /\ Len(source) >= 2
         THEN <<Lit(source[2])>> \o RegExpAtoms(Tail(Tail(source)))
    ELSE IF Head(source) = "." THEN <<AnyChar>> \o RegExpAtoms(Tail(source))
    ELSE IF Head(source) = "$" THEN <<EndOfInput>> \o RegExpAtoms(Tail(source))
    ELSE <<Lit(Head(source))>> \o RegExpAtoms(Tail(source))

\* Length of the match of atoms at position i of s, -1 if there is none.
RECURSIVE MatchAt(_, _, _, _)
MatchAt(s, i, atoms, n) ==
    IF n > Len(atoms) THEN 0
    ELSE IF atoms[n].k = "end"
         THEN IF i > Len(s) THEN MatchAt(s, i, atoms, n + 1) ELSE -1
    ELSE IF i > Len(s) THEN -1
    ELSE IF atoms[n].k = "any" \/ atoms[n].c = s[i]
         THEN (LET m == MatchAt(s, i + 1, atoms, n + 1)
               IN IF m < 0 THEN -1 ELSE m + 1)
    ELSE -1

\* The grave accent character (U+0060), written as a name because the
\* character itself cannot stand in a TLA+ string.
Backtick == "GRAVE"

\* GetSubstitution of ECMAScript for an expression without capture groups:
\* $$ is a dollar sign, $& the match, $ followed by a grave accent the text
\* before the match, $' the text after it; every other character stands
\* for itself.
IsPatternAt(repl, j) ==
    repl[j] = "$" /\ j < Len(repl) /\ repl[j + 1] \in {"$", "&", Backtick, "'"}

RECURSIVE GetSubstitution(_, _, _, _, _)
GetSubstitution(repl, i, s, pos, mlen) ==
    LET j == Least({n \in i..Len(repl) : IsPatternAt(repl, n)})
    IN IF j = 0 THEN SubSeq(repl, i, Len(repl))
       ELSE SubSeq(repl, i, j - 1)
            \o (CASE repl[j + 1] = "$" -> <<"$">>
                   [] repl[j + 1] = "&" -> SubSeq(s, pos, pos + mlen - 1)
                   [] repl[j + 1] = Backtick -> SubSeq(s, 1, pos - 1)
                   [] repl[j + 1] = "'" -> SubSeq(s, pos + mlen, Len(s)))
            \o GetSubstitution(repl, j + 2, s, pos, mlen)

\* s.replace(regexp, repl): every non-empty match, left to right, without
\* overlap (the expressions used here have no empty match).
RECURSIVE ReplaceFrom(_, _, _, _)
ReplaceFrom(s, i, atoms, repl) ==
    LET j == Least({n \in i..Len(s) : MatchAt(s, n, atoms, 1) > 0})
    IN IF j = 0 THEN SubSeq(s, i, Len(s))
       ELSE SubSeq(s, i, j - 1)
            \o GetSubstitution(repl, 1, s, j, MatchAt(s, j, atoms, 1))
            \o ReplaceFrom(s, j + MatchAt(s, j, atoms, 1), atoms, repl)

replace(s, atoms, repl) == ReplaceFrom(s, 1, atoms, repl)

(***************************************************************************)
(* resolveTemplate                                                         *)
(***************************************************************************)
newRP(str) == RegExpAtoms(EscapeRegExp(str))

\* One round of the forEach over Object.keys(vars).
ResolveKey(res, key, val) ==
    LET placeholder == <<"$">> \o key
    IN IF IsObjectType(val)
       THEN LET jsonVal == stringify(val)
                r1 == replace(res, newRP(<<"\"">> \o placeholder \o <<"\"">>), jsonVal)
                r2 == replace(r1, newRP(<<"'">> \o placeholder \o <<"'">>), jsonVal)
            IN replace(r2, newRP(placeholder), jsonVal)
       ELSE replace(res, newRP(placeholder), String(val))

RECURSIVE ResolveKeys(_, _, _)
ResolveKeys(res, vs, n) ==
    IF n > Len(vs) THEN res
    ELSE ResolveKeys(ResolveKey(res, vs[n].k, vs[n].val), vs, n + 1)

resolveTemplate(tpl, vs) == ResolveKeys(tpl, vs, 1)

(***************************************************************************)
(* The calls of resolveTemplate that are explored: templates put together  *)
(* from at most MaxPieces pieces, variable maps of at most MaxVars keys.   *)
(***************************************************************************)
MaxPieces == 3
MaxVars == 2

K_model == <<"m", "o", "d", "e", "l">>
K_modelName == <<"m", "o", "d", "e", "l", "N", "a", "m", "e">>
K_messages == <<"m", "e", "s", "s", "a", "g", "e", "s">>

TemplatePieces ==
    { <<"$">> \o K_model, <<"$">> \o K_modelName, <<"$">> \o K_messages,
      <<"\"">>, <<"'">>, <<"a">> }

RECURSIVE PieceSeqs(_)
PieceSeqs(n) ==
    IF n = 0 THEN {<<>>}
    ELSE LET shorter == PieceSeqs(n - 1)
         IN shorter \cup {Append(ps, p) : ps \in {q \in shorter : Len(q) = n - 1},
                                          p \in TemplatePieces}

Templates == {Flatten(ps) : ps \in PieceSeqs(MaxPieces)}

CompositeValues ==
    { Arr(<<Str(<<"d">>)>>),
      Arr(<<Obj(<<Member(<<"r">>, Str(<<"$", "&">>))>>)>>),
      Null }

ValuesOf(key) ==
    CASE key = K_model ->
            {Str(<<"b">>), Str(<<"$", "&">>), Str(<<"$">> \o K_messages)}
      [] key = K_modelName -> {Str(<<"c">>), Str(<<"$", "'">>)}
      [] OTHER -> CompositeValues

Keys == {K_model, K_modelName, K_messages}

RECURSIVE VarMaps(_)
VarMaps(n) ==
    IF n = 0 THEN {<<>>}
    ELSE LET shorter == VarMaps(n - 1)
         IN shorter \cup
            UNION { UNION { {Append(vs, Member(key, val)) : val \in ValuesOf(key)}
                            : key \in {k \in Keys :
                                          \A i \in 1..Len(vs) : vs[i].k # k} }
                    : vs \in {w \in shorter : Len(w) = n - 1} }

TemplateIdle ==
    /\ templateStr = <<>>
    /\ vars = <<>>
    /\ result = <<>>
    /\ tpc = "idle"

TemplateInit ==
    /\ templateStr \in Templates
    /\ vars \in VarMaps(MaxVars)
    /\ result = <<>>
    /\ tpc = "ready"

\* The call resolveTemplate(templateStr, vars), from entry to return.
Resolve ==
    /\ tpc = "ready"
    /\ result' = resolveTemplate(templateStr, vars)
    /\ tpc' = "returned"
    /\ UNCHANGED <<templateStr, vars>>
    /\ UNCHANGED <<adapterVars, extractVars, sessionVars>>


(***************************************************************************)
(* Settings and the provider selection of sendMessageToComfyAgent          *)
(***************************************************************************)
\* AppSettings as the adapters read it.  customConfig.endpoint, .headers and
\* .body are empty when customConfig or the field is absent; envApiKey is
\* process.env.API_KEY.
Settings(provider, usePythonBackend, baseUrl, pythonBackendUrl, apiKey, envApiKey, modelName, endpoint, headers, body) ==
    [provider |-> provider, usePythonBackend |-> usePythonBackend,
     baseUrl |-> baseUrl, pythonBackendUrl |-> pythonBackendUrl,
     apiKey |-> apiKey, envApiKey |-> envApiKey, modelName |-> modelName,
     endpoint |-> endpoint, headers |-> headers, body |-> body]

\* A selection by the provider alone.
SelectedByProvider(s) == IF s.provider = "google" THEN "google" ELSE "custom"

\* The adapter the if / else-if chain of sendMessageToComfyAgent calls.
SelectedAdapter(s) ==
    IF s.usePythonBackend THEN "python"
    ELSE IF s.provider = "google" THEN "google"
    ELSE "custom"

\* BASE_SYSTEM_INSTRUCTION + languageInstruction, shortened: a line break
\* and the quoted language code are what is kept of it.
fullSystemInstruction == <<"S", "\n", "\"", "e", "n", "\"">>

NoError == [msg |-> "", detail |-> <<>>]
Error(msg, detail) == [msg |-> msg, detail |-> detail]
NoReturn == [text |-> <<>>, sources |-> <<>>]

\* One invocation of a callback: which one, and its argument.
Call(cb, arg) == [cb |-> cb, arg |-> arg]

\* An invocation that overtakes the ones made before it.
InvokeAhead(cs, given, cb, arg) == IF given THEN <<Call(cb, arg)>> \o cs ELSE cs

\* if (callback) callback(arg): the invocation follows the ones made so far.
Invoke(cs, given, cb, arg) == IF given THEN Append(cs, Call(cb, arg)) ELSE cs

(***************************************************************************)
(* callCustomLLM                                                           *)
(***************************************************************************)
defaultConfig ==
    [endpoint |-> <<"/", "c", "h", "a", "t", "/", "c", "o", "m", "p", "l", "e", "t", "i", "o", "n", "s">>,
     headers |-> stringify(Obj(<<
         Member(<<"C", "o", "n", "t", "e", "n", "t", "-", "T", "y", "p", "e">>, Str(<<"a", "p", "p", "l", "i", "c", "a", "t", "i", "o", "n", "/", "j", "s", "o", "n">>)),
         Member(<<"A", "u", "t", "h", "o", "r", "i", "z", "a", "t", "i", "o", "n">>, Str(<<"B", "e", "a", "r", "e", "r", " ", "$", "a", "p", "i", "K", "e", "y">>))>>)),
     body |-> stringify(Obj(<<
         Member(<<"m", "o", "d", "e", "l">>, Str(<<"$", "m", "o", "d", "e", "l">>)),
         Member(<<"m", "e", "s", "s", "a", "g", "e", "s">>, Str(<<"$", "m", "e", "s", "s", "a", "g", "e", "s">>)),
         Member(<<"t", "e", "m", "p", "e", "r", "a", "t", "u", "r", "e">>, Num(<<"0", ".", "5">>)),
         Member(<<"s", "t", "r", "e", "a", "m">>, Bool(FalseText))>>))]

\* a || b on strings
OrDefault(a, b) == IF a # <<>> THEN a ELSE b

endpointTpl(s) == OrDefault(s.endpoint, defaultConfig.endpoint)
headersTpl(s) == OrDefault(s.headers, defaultConfig.headers)
bodyTpl(s) == OrDefault(s.body, defaultConfig.body)

\* settings.baseUrl.replace(/\/$/, '')
StripSlash(u) == IF u # <<>> /\ u[Len(u)] = "/" THEN SubSeq(u, 1, Len(u) - 1) ELSE u

ResolveUrl(s) ==
    IF startsWith(endpointTpl(s), <<"h", "t", "t", "p">>) THEN endpointTpl(s)
    ELSE StripSlash(s.baseUrl)
         \o (IF startsWith(endpointTpl(s), <<"/">>) THEN endpointTpl(s)
             ELSE <<"/">> \o endpointTpl(s))

variables(s, p, systemInstruction) ==
    << Member(<<"m", "o", "d", "e", "l">>, Str(s.modelName)),
       Member(<<"a", "p", "i", "K", "e", "y">>, Str(s.apiKey)),
       Member(<<"p", "r", "o", "m", "p", "t">>, Str(systemInstruction \o <<"\n", "\n">> \o p)),
       Member(<<"s", "y", "s", "t", "e", "m">>, Str(systemInstruction)),
       Member(<<"u", "s", "e", "r", "_", "p", "r", "o", "m", "p", "t">>, Str(p)),
       Member(<<"m", "e", "s", "s", "a", "g", "e", "s">>, Arr(<<
           Obj(<<Member(<<"r", "o", "l", "e">>, Str(<<"s", "y", "s", "t", "e", "m">>)),
                 Member(<<"c", "o", "n", "t", "e", "n", "t">>, Str(systemInstruction))>>),
           Obj(<<Member(<<"r", "o", "l", "e">>, Str(<<"u", "s", "e", "r">>)),
                 Member(<<"c", "o", "n", "t", "e", "n", "t">>, Str(p))>>)>>)) >>

headersStr(s, p) == resolveTemplate(headersTpl(s), variables(s, p, fullSystemInstruction))
bodyStr(s, p) == resolveTemplate(bodyTpl(s), variables(s, p, fullSystemInstruction))

Fetch(url, headers, body) == [kind |-> "fetch", url |-> url, headers |-> headers, body |-> body]

\* callCustomLLM without `JSON.parse(bodyStr)` before the request.
CustomPrepareBodyUnchecked(s, p) ==
    LET Headers(headers, body) ==
            IF ~headers.ok
            THEN [error |-> Error("Invalid Headers Configuration", <<>>), request |-> <<>>]
            ELSE [error |-> NoError,
                  request |-> <<Fetch(ResolveUrl(s), stringify(headers.val), body)>>]
    IN IF s.baseUrl = <<>>
       THEN [error |-> Error("Base URL required for custom provider", <<>>), request |-> <<>>]
       ELSE Headers(JSONparse(headersStr(s, p)), bodyStr(s, p))

\* callCustomLLM from its entry to the await of fetch: the error it throws,
\* or the request it hands to fetch.
CustomPrepare(s, p) ==
    IF s.baseUrl = <<>>
    THEN [error |-> Error("Base URL required for custom provider", <<>>), request |-> <<>>]
    ELSE LET Body(headers, body, parsedBody) ==
                 IF ~parsedBody.ok
                 THEN [error |-> Error("Invalid Body Template JSON", <<>>), request |-> <<>>]
                 ELSE [error |-> NoError,
                       request |-> <<Fetch(ResolveUrl(s), stringify(headers.val), body)>>]
             Headers(headers, body) ==
                 IF ~headers.ok
                 THEN [error |-> Error("Invalid Headers Configuration", <<>>), request |-> <<>>]
                 ELSE Body(headers, body, JSONparse(body))
         IN Headers(JSONparse(headersStr(s, p)), bodyStr(s, p))

\* The reply text taken from the parsed response body (before the fallback).
ExtractText(data) ==
    LET choice == First(Get(data, <<"c", "h", "o", "i", "c", "e", "s">>))
    IN IF Truthy(Get(data, <<"c", "h", "o", "i", "c", "e", "s">>)) /\ Truthy(choice)
       THEN IF Truthy(Get(choice, <<"m", "e", "s", "s", "a", "g", "e">>))
            THEN Get(Get(choice, <<"m", "e", "s", "s", "a", "g", "e">>), <<"c", "o", "n", "t", "e", "n", "t">>)
            ELSE IF Truthy(Get(choice, <<"t", "e", "x", "t">>)) THEN Get(choice, <<"t", "e", "x", "t">>)
            ELSE Str(<<>>)
       ELSE IF Truthy(Get(data, <<"c", "o", "n", "t", "e", "n", "t">>)) THEN Get(data, <<"c", "o", "n", "t", "e", "n", "t">>)
       ELSE IF Truthy(Get(data, <<"r", "e", "s", "p", "o", "n", "s", "e">>)) THEN Get(data, <<"r", "e", "s", "p", "o", "n", "s", "e">>)
       ELSE Str(<<>>)

\* The extraction without `if (!text) text = JSON.stringify(data)`.
CustomTextNoFallback(data) == String(ExtractText(data))

\* if (!text) text = JSON.stringify(data)
CustomText(data) ==
    LET Fallback(text) == IF Truthy(text) THEN String(text) ELSE stringify(data)
    IN Fallback(ExtractText(data))

\* A delivery that repeats the call of onStream.
CustomDeliverTwice(ds, given, text) == IF given THEN ds \o <<text, text>> ELSE ds

\* if (onStream) onStream(text)
CustomDeliver(ds, given, text) == IF given THEN Append(ds, text) ELSE ds


\* The awaits at which the transport may fail instead of delivering.
AwaitingTransport ==
    {"custom_fetch", "custom_text", "custom_json", "gemini_open", "gemini_next",
     "python_fetch", "python_read"}

\* Bodies a custom endpoint may answer with.
ChoicesOptions ==
    { Undefined,
      Arr(<<>>),
      Arr(<<Obj(<<>>)>>),
      Arr(<<Obj(<<Member(<<"m", "e", "s", "s", "a", "g", "e">>, Obj(<<>>))>>)>>),
      Arr(<<Obj(<<Member(<<"m", "e", "s", "s", "a", "g", "e">>, Obj(<<Member(<<"c", "o", "n", "t", "e", "n", "t">>, Null)>>))>>)>>),
      Arr(<<Obj(<<Member(<<"m", "e", "s", "s", "a", "g", "e">>, Obj(<<Member(<<"c", "o", "n", "t", "e", "n", "t">>, Str(<<"h", "i">>))>>))>>)>>),
      Arr(<<Obj(<<Member(<<"t", "e", "x", "t">>, Str(<<"t">>))>>)>>),
      Arr(<<Obj(<<Member(<<"t", "e", "x", "t">>, Str(<<>>))>>)>>),
      Arr(<<Obj(<<Member(<<"m", "e", "s", "s", "a", "g", "e">>, Obj(<<Member(<<"c", "o", "n", "t", "e", "n", "t">>, Str(<<>>))>>)),
                  Member(<<"t", "e", "x", "t">>, Str(<<"t">>))>>)>>) }

ContentOptions == {Undefined, Str(<<>>), Str(<<"o", "k">>)}
ResponseOptions == {Undefined, Str(<<"r">>)}

ResponseData ==
    { Obj(<<Member(<<"c", "h", "o", "i", "c", "e", "s">>, ch), Member(<<"c", "o", "n", "t", "e", "n", "t">>, co), Member(<<"r", "e", "s", "p", "o", "n", "s", "e">>, re)>>) :
        ch \in ChoicesOptions, co \in ContentOptions, re \in ResponseOptions }

HttpResponse(ok, status, body) == [ok |-> ok, status |-> status, body |-> body]

CustomResponses ==
    {HttpResponse(TRUE, <<"2", "0", "0">>, stringify(d)) : d \in ResponseData}
    \cup {HttpResponse(TRUE, <<"2", "0", "0">>, NullText),
          HttpResponse(TRUE, <<"2", "0", "0">>, <<"<", "h", "t", "m", "l", ">">>),
          HttpResponse(FALSE, <<"5", "0", "0">>, <<"o", "o", "p", "s">>)}

\* callCustomLLM up to `await fetch(...)`.
callCustomLLM_Start ==
    /\ pc = "start"
    /\ SelectedAdapter(settings) = "custom"
    /\ LET Prepared(r) ==
               IF r.error # NoError
               THEN /\ pc' = "threw"
                    /\ err' = r.error
                    /\ net' = net
               ELSE /\ pc' = "custom_fetch"
                    /\ err' = err
                    /\ net' = net \o r.request
       IN Prepared(CustomPrepare(settings, prompt))
    /\ UNCHANGED <<templateVars, extractVars, sessionVars>>
    /\ UNCHANGED <<settings, prompt, onStream, onStatus, inbox, buffer, fullText,
                   allSources, deltas, statuses, calls, received, ret>>

\* fetch resolves; `if (!response.ok)`.
callCustomLLM_Response ==
    /\ pc = "custom_fetch"
    /\ \E resp \in CustomResponses :
          /\ inbox' = <<resp>>
          /\ pc' = IF resp.ok THEN "custom_json" ELSE "custom_text"
    /\ UNCHANGED <<templateVars, extractVars, sessionVars>>
    /\ UNCHANGED <<settings, prompt, onStream, onStatus, net, buffer, fullText,
                   allSources, deltas, statuses, calls, received, ret, err>>

\* `await response.text()` of a non-success response, and the throw.
callCustomLLM_ErrorText ==
    /\ pc = "custom_text"
    /\ received' = Append(received, inbox[1].body)
    /\ inbox' = <<>>
    /\ err' = Error("Custom API Error",
                    net[Len(net)].url \o <<" ", "r", "e", "t", "u", "r", "n", "e", "d", " ">> \o inbox[1].status
                    \o <<" ", "-", " ">> \o inbox[1].body)
    /\ pc' = "threw"
    /\ UNCHANGED <<templateVars, extractVars, sessionVars>>
    /\ UNCHANGED <<settings, prompt, onStream, onStatus, net, buffer, fullText,
                   allSources, deltas, statuses, calls, ret>>

\* `await response.json()`, the extraction, the callback and the return.
callCustomLLM_Json ==
    /\ pc = "custom_json"
    /\ received' = Append(received, inbox[1].body)
    /\ inbox' = <<>>
    /\ LET Extracted(text) ==
               /\ deltas' = CustomDeliver(deltas, onStream, text)
               /\ calls' = Invoke(calls, onStream, "onStream", text)
               /\ ret' = [text |-> text, sources |-> <<>>]
               /\ pc' = "returned"
               /\ err' = err
           Parsed(data) ==
               IF ~data.ok
               THEN /\ err' = Error("SyntaxError", <<>>)
                    /\ pc' = "threw"
                    /\ UNCHANGED <<deltas, calls, ret>>
               ELSE IF Throws(data.val)
               THEN /\ err' = Error("TypeError", <<>>)
                    /\ pc' = "threw"
                    /\ UNCHANGED <<deltas, calls, ret>>
               ELSE Extracted(CustomText(data.val))
       IN Parsed(JSONparse(inbox[1].body))
    /\ UNCHANGED <<templateVars, extractVars, sessionVars>>
    /\ UNCHANGED <<settings, prompt, onStream, onStatus, net, buffer, fullText,
                   allSources, statuses>>

(***************************************************************************)
(* callGoogleGemini                                                        *)
(***************************************************************************)
MaxChunks == 3

SdkCall(model, apiKey, contents) ==
    [kind |-> "sdk", url |-> model, headers |-> apiKey, body |-> contents]

Source(uri, title) == [uri |-> uri, title |-> title]

\* A chunk of the SDK stream: chunk.text (undefined when the chunk has no
\* text part) and the web entries of its grounding chunks, an absent uri or
\* title being the empty string.
Chunk(text, groundingChunks) == [text |-> text, groundingChunks |-> groundingChunks]

GeminiChunks ==
    { Chunk(Str(<<"a", "b">>), <<>>),
      Chunk(Str(<<>>), <<>>),
      Chunk(Undefined, <<Source(<<"u", "1">>, <<"t", "1">>)>>),
      Chunk(Str(<<"c">>), <<Source(<<"u", "1">>, <<"t", "2">>), Source(<<"u", "2">>, <<"t", "1">>)>>),
      Chunk(Undefined, <<Source(<<"u", "3">>, <<>>)>>) }

\* groundingChunks.forEach(gc => { if (gc.web?.uri && gc.web?.title) push })
Grounded(groundingChunks) ==
    SelectSeq(groundingChunks, LAMBDA gc : gc.uri # <<>> /\ gc.title # <<>>)

\* Array.from(new Map(allSources.map(item => [item.uri, item])).values()):
\* a Map keeps a key at the place of its first insertion and the value of
\* its last one.
RECURSIVE uniqueSources(_)
uniqueSources(all) ==
    IF all = <<>> THEN <<>>
    ELSE LET uri == all[1].uri
             last == Max({i \in 1..Len(all) : all[i].uri = uri})
         IN <<all[last]>> \o uniqueSources(SelectSeq(all, LAMBDA x : x.uri # uri))

\* A key that is never missing.
GeminiKeyOrPlaceholder(s) == OrDefault(OrDefault(s.apiKey, s.envApiKey), <<"x">>)

\* const apiKey = settings.apiKey || process.env.API_KEY
GeminiKey(s) == OrDefault(s.apiKey, s.envApiKey)

\* callGoogleGemini up to `await ai.models.generateContentStream(...)`.
callGoogleGemini_Start ==
    /\ pc = "start"
    /\ SelectedAdapter(settings) = "google"
    /\ IF GeminiKey(settings) = <<>>
       THEN /\ pc' = "threw"
            /\ err' = Error("API Key is missing. Please set it in settings.", <<>>)
            /\ net' = net
       ELSE /\ pc' = "gemini_open"
            /\ err' = err
            /\ net' = Append(net, SdkCall(OrDefault(settings.modelName, <<"g", "e", "m", "i", "n", "i", "-", "2", ".", "5", "-", "f", "l", "a", "s", "h">>),
                                          GeminiKey(settings),
                                          prompt))
    /\ UNCHANGED <<templateVars, extractVars, sessionVars>>
    /\ UNCHANGED <<settings, prompt, onStream, onStatus, inbox, buffer, fullText,
                   allSources, deltas, statuses, calls, received, ret>>

\* generateContentStream resolves with the stream.
callGoogleGemini_Open ==
    /\ pc = "gemini_open"
    /\ pc' = "gemini_next"
    /\ UNCHANGED <<templateVars, extractVars, sessionVars>>
    /\ UNCHANGED <<settings, prompt, onStream, onStatus, net, inbox, buffer, fullText,
                   allSources, deltas, statuses, calls, received, ret, err>>

\* if (onStream) onStream(chunkText)
GeminiDeliver(ds, given, chunkText) == IF given THEN Append(ds, chunkText) ELSE ds

\* One round of `for await (const chunk of streamResult)`.
callGoogleGemini_Chunk ==
    /\ pc = "gemini_next"
    /\ Len(received) < MaxChunks
    /\ \E chunk \in GeminiChunks :
          /\ received' = Append(received, String(OrElse(chunk.text, Str(<<>>))))
          /\ IF Truthy(chunk.text)
             THEN /\ fullText' = fullText \o chunk.text.v
                  /\ deltas' = GeminiDeliver(deltas, onStream, chunk.text.v)
                  /\ calls' = Invoke(calls, onStream, "onStream", chunk.text.v)
             ELSE UNCHANGED <<fullText, deltas, calls>>
          /\ allSources' = allSources \o Grounded(chunk.groundingChunks)
    /\ UNCHANGED <<templateVars, extractVars, sessionVars>>
    /\ UNCHANGED <<settings, prompt, onStream, onStatus, pc, net, inbox, buffer,
                   statuses, ret, err>>

\* The stream ends: de-duplication and return.
callGoogleGemini_End ==
    /\ pc = "gemini_next"
    /\ ret' = [text |-> fullText, sources |-> uniqueSources(allSources)]
    /\ pc' = "returned"
    /\ UNCHANGED <<templateVars, extractVars, sessionVars>>
    /\ UNCHANGED <<settings, prompt, onStream, onStatus, net, inbox, buffer, fullText,
                   allSources, deltas, statuses, calls, received, err>>

(***************************************************************************)
(* callPythonBackendStream                                                 *)
(***************************************************************************)
DataPrefix == <<"d", "a", "t", "a", ":", " ">>
DoneMarker == <<"[", "D", "O", "N", "E", "]">>

\* buffer.split('\n')
RECURSIVE split(_)
split(s) ==
    LET i == Least({j \in 1..Len(s) : s[j] = "\n"})
    IN IF i = 0 THEN <<s>>
       ELSE <<SubSeq(s, 1, i - 1)>> \o split(SubSeq(s, i + 1, Len(s)))

\* line.replace('data: ', ''): the first occurrence goes.
RemoveFirst(line, pat) ==
    LET i == IndexOfFrom(line, pat, 1)
    IN IF i = 0 THEN line
       ELSE SubSeq(line, 1, i - 1) \o SubSeq(line, i + Len(pat), Len(line))

\* v?.k
OptGet(val, k) == IF Throws(val) THEN Undefined ELSE Get(val, k)

AgentStatus(node, displayText, status, details) ==
    [node |-> node, displayText |-> displayText, status |-> status, details |-> details]

\* What the calls of one adapter invocation have built up so far.
Progress(text, ds, sts, cs) ==
    [fullText |-> text, deltas |-> ds, statuses |-> sts, calls |-> cs]

\* A delivery of the text accumulated so far instead of the new fragment.
PythonDeliverCumulative(ds, given, text) ==
    IF given THEN Append(ds, Flatten(ds) \o text) ELSE ds

\* if (onStream) onStream(text)
PythonDeliver(ds, given, text) == IF given THEN Append(ds, text) ELSE ds

\* The dispatch on a parsed event (the body of the try block).
Dispatch(pr, data, streamGiven, statusGiven) ==
    LET Status(st) ==
            Progress(pr.fullText, pr.deltas, Append(pr.statuses, st),
                     Invoke(pr.calls, TRUE, "onStatus", st))
        Content(text) ==
            Progress(pr.fullText \o text, PythonDeliver(pr.deltas, streamGiven, text),
                     pr.statuses, Invoke(pr.calls, streamGiven, "onStream", text))
        Event(type, metadata, chunk) ==
            IF type = Str(<<"s", "t", "a", "t", "u", "s", "_", "u", "p", "d", "a", "t", "e">>) /\ statusGiven
            THEN Status(AgentStatus(OptGet(metadata, <<"n", "o", "d", "e">>),
                                    OrElse(OptGet(metadata, <<"d", "i", "s", "p", "l", "a", "y", "_", "t", "e", "x", "t">>),
                                           Str(<<"P", "r", "o", "c", "e", "s", "s", "i", "n", "g", ".", ".", ".">>)),
                                    OrElse(OptGet(metadata, <<"s", "t", "a", "t", "u", "s">>),
                                           Str(<<"p", "r", "o", "c", "e", "s", "s", "i", "n", "g">>)),
                                    Undefined))
            ELSE IF type = Str(<<"m", "e", "t", "a", "_", "u", "p", "d", "a", "t", "e">>) /\ statusGiven
            THEN Status(AgentStatus(OptGet(metadata, <<"n", "o", "d", "e">>),
                                    Str(<<"P", "r", "o", "c", "e", "s", "s", "i", "n", "g", " ", "f", "o", "u", "n", "d", " ", "d", "a", "t", "a", ".", ".", ".">>),
                                    Str(<<"p", "r", "o", "c", "e", "s", "s", "i", "n", "g">>),
                                    OptGet(metadata, <<"s", "t", "e", "p", "_", "d", "a", "t", "a">>)))
            ELSE IF type = Str(<<"c", "o", "n", "t", "e", "n", "t">>) \/ Truthy(chunk)
            THEN Content(String(OrElse(chunk, Str(<<>>))))
            ELSE pr
    IN Event(Get(data, <<"t", "y", "p", "e">>), Get(data, <<"m", "e", "t", "a", "d", "a", "t", "a">>), Get(data, <<"c", "h", "u", "n", "k">>))

\* A catch block that forgets what the call has built up.
CaughtDiscarding(pr) == Progress(<<>>, <<>>, <<>>, <<>>)

\* catch (e) { console.warn(...) }: the loop goes on with the next line.
Caught(pr) == pr

\* The body of `for (const line of lines)`.
ProcessLine(pr, line, streamGiven, statusGiven) ==
    IF ~startsWith(trim(line), DataPrefix) THEN pr
    ELSE LET Event(parsed) ==
                 IF ~parsed.ok \/ Throws(parsed.val) THEN Caught(pr)
                 ELSE Dispatch(pr, parsed.val, streamGiven, statusGiven)
             Data(jsonStr) ==
                 IF jsonStr = DoneMarker THEN pr ELSE Event(JSONparse(jsonStr))
         IN Data(trim(RemoveFirst(line, DataPrefix)))

RECURSIVE ProcessLines(_, _, _, _)
ProcessLines(pr, lines, streamGiven, statusGiven) ==
    IF lines = <<>> THEN pr
    ELSE ProcessLines(ProcessLine(pr, Head(lines), streamGiven, statusGiven),
                      Tail(lines), streamGiven, statusGiven)

\* callPythonBackendStream up to `await fetch(...)`.  Of the payload only
\* the message is carried; workflow, session_id, error_log, language and
\* config_id are arguments the adapter passes on unread.
callPythonBackendStream_Start ==
    /\ pc = "start"
    /\ SelectedAdapter(settings) = "python"
    /\ IF settings.pythonBackendUrl = <<>>
       THEN /\ pc' = "threw"
            /\ err' = Error("Python Backend URL is missing.", <<>>)
            /\ net' = net
       ELSE /\ pc' = "python_fetch"
            /\ err' = err
            /\ net' = Append(net,
                   Fetch(StripSlash(settings.pythonBackendUrl) \o <<"/", "a", "p", "i", "/", "c", "h", "a", "t", "/", "s", "t", "r", "e", "a", "m">>,
                         stringify(Obj(<<Member(<<"C", "o", "n", "t", "e", "n", "t", "-", "T", "y", "p", "e">>, Str(<<"a", "p", "p", "l", "i", "c", "a", "t", "i", "o", "n", "/", "j", "s", "o", "n">>))>>)),
                         stringify(Obj(<<Member(<<"m", "e", "s", "s", "a", "g", "e">>, Str(prompt))>>))))
    /\ UNCHANGED <<templateVars, extractVars, sessionVars>>
    /\ UNCHANGED <<settings, prompt, onStream, onStatus, inbox, buffer, fullText,
                   allSources, deltas, statuses, calls, received, ret>>

\* What the orchestration server may answer with: a status, and the text of
\* the event stream (hasBody = FALSE: response.body is null).
StreamResponse(ok, status, hasBody, payload) ==
    [ok |-> ok, status |-> status, hasBody |-> hasBody, body |-> payload]

Payloads ==
    { <<"d", "a", "t", "a", ":", " ", "{", "\"", "t", "y", "p", "e", "\"", ":", "\"", "c", "o", "n", "t", "e", "n", "t", "\"", ",", "\"", "c", "h", "u", "n", "k", "\"", ":", "\"", "H", "e", "l", "\"", "}", "\n", "d", "a", "t", "a", ":", " ", "{", "\"", "c", "h", "u", "n", "k", "\"", ":", "\"", "l", "o", "\"", "}", "\n", "d", "a", "t", "a", ":", " ", "[", "D", "O", "N", "E", "]", "\n">>,
      <<"d", "a", "t", "a", ":", " ", "{", "\"", "t", "y", "p", "e", "\"", ":", "\"", "s", "t", "a", "t", "u", "s", "_", "u", "p", "d", "a", "t", "e", "\"", ",", "\"", "m", "e", "t", "a", "d", "a", "t", "a", "\"", ":", "{", "\"", "n", "o", "d", "e", "\"", ":", "\"", "n", "\"", "}", "}", "\n", ":", " ", "k", "\n", "d", "a", "t", "a", ":", " ", "{", "\"", "t", "y", "p", "e", "\"", ":", "\"", "x", "\"", "}", "\n", "d", "a", "t", "a", ":", " ", "{", "b", "a", "d", "\n", "d", "a", "t", "a", ":", " ", "{", "\"", "t", "y", "p", "e", "\"", ":", "\"", "c", "o", "n", "t", "e", "n", "t", "\"", "}", "\n", "d", "a", "t", "a", ":", " ", "{", "\"", "c", "h", "u", "n", "k", "\"", ":", "\"", "a", "\"", "}">>,
      <<" ", "d", "a", "t", "a", ":", " ", "{", "\"", "t", "y", "p", "e", "\"", ":", "\"", "m", "e", "t", "a", "_", "u", "p", "d", "a", "t", "e", "\"", ",", "\"", "c", "h", "u", "n", "k", "\"", ":", "\"", "x", "\"", ",", "\"", "m", "e", "t", "a", "d", "a", "t", "a", "\"", ":", "{", "\"", "n", "o", "d", "e", "\"", ":", "\"", "m", "\"", ",", "\"", "s", "t", "a", "t", "u", "s", "\"", ":", "\"", "o", "k", "\"", ",", "\"", "s", "t", "e", "p", "_", "d", "a", "t", "a", "\"", ":", "1", "}", "}", "\n", "d", "a", "t", "a", ":", " ", "{", "\"", "t", "y", "p", "e", "\"", ":", "\"", "s", "t", "a", "t", "u", "s", "_", "u", "p", "d", "a", "t", "e", "\"", ",", "\"", "c", "h", "u", "n", "k", "\"", ":", "\"", "y", "\"", ",", "\"", "m", "e", "t", "a", "d", "a", "t", "a", "\"", ":", "{", "\"", "s", "t", "a", "t", "u", "s", "\"", ":", "\"", "d", "o", "n", "e", "\"", "}", "}", "\n", "\n">> }

PythonResponses ==
    {StreamResponse(TRUE, <<"2", "0", "0">>, TRUE, p) : p \in Payloads}
    \cup {StreamResponse(FALSE, <<"5", "0", "2">>, TRUE, <<>>),
          StreamResponse(TRUE, <<"2", "0", "0">>, FALSE, <<>>)}

\* fetch resolves; the two checks before the reader is taken.
callPythonBackendStream_Response ==
    /\ pc = "python_fetch"
    /\ \E resp \in PythonResponses :
          IF ~resp.ok
          THEN /\ err' = Error("Backend Error", resp.status)
               /\ pc' = "threw"
               /\ inbox' = inbox
          ELSE IF ~resp.hasBody
          THEN /\ err' = Error("No response body from backend", <<>>)
               /\ pc' = "threw"
               /\ inbox' = inbox
          ELSE /\ err' = err
               /\ pc' = "python_read"
               /\ inbox' = resp.body
    /\ UNCHANGED <<templateVars, extractVars, sessionVars>>
    /\ UNCHANGED <<settings, prompt, onStream, onStatus, net, buffer, fullText,
                   allSources, deltas, statuses, calls, received, ret>>

\* The sizes reader.read() may deliver of the rest of the stream: a few
\* characters, everything up to the end of a line or one character past it,
\* or all of it.
MaxRead == 2

ReadSizes(rest) ==
    { n \in 1..Len(rest) : \/ n <= MaxRead
                           \/ n = Len(rest)
                           \/ rest[n] = "\n"
                           \/ n > 1 /\ rest[n - 1] = "\n" }

\* A loop round that keeps nothing of an unfinished line.
RemainderDropped(lines) == <<>>

\* buffer = lines.pop() || "": the text after the last newline received.
Remainder(lines) == lines[Len(lines)]

\* The lines the loop round dispatches: all but the popped one.
Complete(lines) == SubSeq(lines, 1, Len(lines) - 1)

\* One round of the read loop: reader.read() delivers the next n characters
\* of the stream.
callPythonBackendStream_Read ==
    /\ pc = "python_read"
    /\ \E n \in ReadSizes(inbox) :
          LET Processed(lines, pr) ==
                  /\ inbox' = SubSeq(inbox, n + 1, Len(inbox))
                  /\ received' = <<Flatten(received) \o SubSeq(inbox, 1, n)>>
                  /\ buffer' = Remainder(lines)
                  /\ fullText' = pr.fullText
                  /\ deltas' = pr.deltas
                  /\ statuses' = pr.statuses
                  /\ calls' = pr.calls
              Lines(lines) ==
                  Processed(lines,
                            ProcessLines(Progress(fullText, deltas, statuses, calls),
                                         Complete(lines), onStream, onStatus))
          IN Lines(split(buffer \o SubSeq(inbox, 1, n)))
    /\ UNCHANGED <<templateVars, extractVars, sessionVars>>
    /\ UNCHANGED <<settings, prompt, onStream, onStatus, pc, net, allSources, ret, err>>

\* reader.read() reports done: the call returns.
callPythonBackendStream_Done ==
    /\ pc = "python_read"
    /\ inbox = <<>>
    /\ ret' = [text |-> fullText, sources |-> <<>>]
    /\ pc' = "returned"
    /\ UNCHANGED <<templateVars, extractVars, sessionVars>>
    /\ UNCHANGED <<settings, prompt, onStream, onStatus, net, inbox, buffer, fullText,
                   allSources, deltas, statuses, calls, received, err>>

\* A pending fetch, body read, SDK call or stream read rejects.
TransportFails ==
    /\ pc \in AwaitingTransport
    /\ err' = Error("TransportError", <<>>)
    /\ pc' = "threw"
    /\ UNCHANGED <<templateVars, extractVars, sessionVars>>
    /\ UNCHANGED <<settings, prompt, onStream, onStatus, net, inbox, buffer, fullText,
                   allSources, deltas, statuses, calls, received, ret>>

(***************************************************************************)
(* sendMessageToComfyAgent: the parsing logic                              *)
(***************************************************************************)

\* The characters `.` of a regular expression does not match.
LineTerminators == {"\n", "\r"}

\* The index of the first character of cs at or after i, Len(s) + 1 if none.
FindIn(s, i, cs) ==
    LET j == Least({n \in i..Len(s) : s[n] \in cs})
    IN IF j = 0 THEN Len(s) + 1 ELSE j

\* replace(/\/\/.*$/gm, ""): of every line, the text from the first `//` on
\* goes.
RECURSIVE StripLineComments(_, _)
StripLineComments(s, i) ==
    LET c == IndexOfFrom(s, <<"/", "/">>, i)
    IN IF c = 0 THEN SubSeq(s, i, Len(s))
       ELSE SubSeq(s, i, c - 1) \o StripLineComments(s, FindIn(s, c, LineTerminators))

\* replace(/\/\*[\s\S]*?\*\//g, ""): every `/*` goes with the text up to the
\* next `*/`; a `/*` that is not closed stays.
RECURSIVE StripBlockComments(_, _)
StripBlockComments(s, i) ==
    LET c == IndexOfFrom(s, <<"/", "*">>, i)
        e == IF c = 0 THEN 0 ELSE IndexOfFrom(s, <<"*", "/">>, c + 2)
    IN IF e = 0 THEN SubSeq(s, i, Len(s))
       ELSE SubSeq(s, i, c - 1) \o StripBlockComments(s, e + 2)

\* replace(/,\s*X/g, X) for a closing bracket X: a comma that only white
\* space separates from the bracket goes with the white space.
RECURSIVE StripCommaBefore(_, _, _)
StripCommaBefore(s, i, closing) ==
    LET c == Least({n \in i..Len(s) : s[n] = "," /\ SkipWs(s, n + 1) <= Len(s)
                                      /\ s[SkipWs(s, n + 1)] = closing})
    IN IF c = 0 THEN SubSeq(s, i, Len(s))
       ELSE SubSeq(s, i, c - 1) \o <<closing>> \o StripCommaBefore(s, SkipWs(s, c + 1) + 1, closing)

cleanJsonString(jsonStr) ==
    StripCommaBefore(
        StripCommaBefore(StripBlockComments(StripLineComments(jsonStr, 1), 1), 1, "}"),
        1, "]")

\* The result of String.prototype.match for an expression with one group:
\* the place of the match and the text of the group.
NoMatch == [found |-> FALSE, from |-> 0, to |-> 0, group |-> <<>>]
Match(from, to, group) == [found |-> TRUE, from |-> from, to |-> to, group |-> group]

Fence == <<Backtick, Backtick, Backtick>>
FenceJson == Fence \o <<"j", "s", "o", "n">>

\* The last index below q that is at b or after it and holds no white
\* space, b - 1 if there is none.
TrimmedEnd(s, b, q) ==
    IF \E n \in b..(q - 1) : s[n] \notin WhiteSpace
    THEN Max({n \in b..(q - 1) : s[n] \notin WhiteSpace})
    ELSE b - 1

\* textResponse.match(/```json\s*([\s\S]*?)\s*```/): the first ```json, the
\* next ``` after the white space that follows it, and between them the text
\* without the white space around it.
MatchFencedJson(s) ==
    LET Closed(i, b, q) ==
            IF q = 0 THEN NoMatch ELSE Match(i, q + 2, SubSeq(s, b, TrimmedEnd(s, b, q)))
        Body(i, b) == Closed(i, b, IndexOfFrom(s, Fence, b))
        Opened(i) == IF i = 0 THEN NoMatch ELSE Body(i, SkipWs(s, i + Len(FenceJson)))
    IN Opened(IndexOfFrom(s, FenceJson, 1))

\* Where the bracket of a tagged region is to stand when the text after the
\* tag starts at j: after the white space and after an opening fence, if
\* there is one.
BracketPlace(s, j) ==
    LET Fenced(f) ==
            IF StartsWithAt(s, f, Fence)
            THEN IF StartsWithAt(s, f + 3, <<"j", "s", "o", "n">>)
                 THEN SkipWs(s, f + 7) ELSE SkipWs(s, f + 3)
            ELSE f
    IN Fenced(SkipWs(s, j))

\* The end of a match whose bracket closes at c: a closing fence after it,
\* white space between them, is part of the match.
FenceEnd(s, c) ==
    IF StartsWithAt(s, SkipWs(s, c + 1), Fence) THEN SkipWs(s, c + 1) + 2 ELSE c

\* textResponse.match(/TAG\s*(?:```(?:json)?\s*)?(\[[\s\S]*?\])(?:\s*```)?/):
\* the first occurrence of the tag that a bracket follows, and of the
\* bracket the text up to the first `]`.
RECURSIVE MatchTaggedFrom(_, _, _)
MatchTaggedFrom(s, tag, i) ==
    LET Bracket(at, k, c) ==
            IF k <= Len(s) /\ s[k] = "[" /\ c <= Len(s)
            THEN Match(at, FenceEnd(s, c), SubSeq(s, k, c))
            ELSE MatchTaggedFrom(s, tag, at + 1)
        Tag(at, k) == Bracket(at, k, FindIn(s, k + 1, {"]"}))
        Found(at) == IF at = 0 THEN NoMatch ELSE Tag(at, BracketPlace(s, at + Len(tag)))
    IN Found(IndexOfFrom(s, tag, i))

MatchTagged(s, tag) == MatchTaggedFrom(s, tag, 1)

IssuesTag == <<"I", "S", "S", "U", "E", "S", "_", "J", "S", "O", "N", ":">>
RelatedTag == <<"R", "E", "L", "A", "T", "E", "D", "_", "Q", "U", "E", "S", "T", "I", "O", "N", "S", ":">>
ActionsTag == <<"S", "U", "G", "G", "E", "S", "T", "E", "D", "_", "A", "C", "T", "I", "O", "N", "S", ":">>

\* textResponse.match(/SUGGESTED_ACTIONS:\s*\[(.*?)\]/): the bracket follows
\* the tag and closes on its line.
RECURSIVE MatchActionsFrom(_, _)
MatchActionsFrom(s, i) ==
    LET Bracket(at, k, c) ==
            IF k <= Len(s) /\ s[k] = "[" /\ c <= Len(s) /\ s[c] = "]"
            THEN Match(at, c, SubSeq(s, k + 1, c - 1))
            ELSE MatchActionsFrom(s, at + 1)
        Tag(at, k) == Bracket(at, k, FindIn(s, k + 1, {"]"} \cup LineTerminators))
        Found(at) == IF at = 0 THEN NoMatch ELSE Tag(at, SkipWs(s, at + Len(ActionsTag)))
    IN Found(IndexOfFrom(s, ActionsTag, i))

MatchActions(s) == MatchActionsFrom(s, 1)

\* s.split(','): the pieces between the separators.
RECURSIVE splitOn(_, _)
splitOn(s, sep) ==
    LET i == Least({j \in 1..Len(s) : s[j] = sep})
    IN IF i = 0 THEN <<s>>
       ELSE <<SubSeq(s, 1, i - 1)>> \o splitOn(SubSeq(s, i + 1, Len(s)), sep)

\* s.replace(/['"]/g, '')
Unquoted(s) == SelectSeq(s, LAMBDA c : c \notin {"'", "\""})

\* The decimal digits of a natural number, as template literals print it.
RECURSIVE DecimalOf(_)
DecimalOf(n) ==
    LET digit == <<"0", "1", "2", "3", "4", "5", "6", "7", "8", "9">>[(n % 10) + 1]
    IN IF n < 10 THEN <<digit>> ELSE DecimalOf(n \div 10) \o <<digit>>

\* The texts of utils/i18n, which are read through t(lang, key) only: the
\* text of a key stands for itself.
i18nText(key) == <<"{", key, "}">>

\* What is thrown inside the outer try block and reaches its catch.
Thrown == [t |-> "thrown", v |-> <<>>]

\* A try block without a catch of its own.
TryUncaught(parsed, initial) == IF parsed.ok THEN parsed.val ELSE Thrown

\* try { x = JSON.parse(...) } catch (e) { console.error(...) }: after a
\* failure x is what it was initialised with.
Try(parsed, initial) == IF parsed.ok THEN parsed.val ELSE initial

\* The group of a match, if the match and the group are truthy.
GroupOf(m) == IF m.found THEN m.group ELSE <<>>

\* updatedWorkflow of the parsing logic.
ExtractWorkflow(text) ==
    LET Block(rawJson) ==
            IF rawJson = <<>> THEN Null
            ELSE Try(JSONparse(cleanJsonString(rawJson)), Null)
    IN Block(GroupOf(MatchFencedJson(text)))

\* An identifier that lacks the index of the issue.
IssueIdWithoutIndex(now, idx) ==
    <<"a", "i", "-", "i", "s", "s", "u", "e", "-">> \o DecimalOf(now)

\* `ai-issue-${Date.now()}-${idx}`
IssueId(now, idx) ==
    <<"a", "i", "-", "i", "s", "s", "u", "e", "-">> \o DecimalOf(now) \o <<"-">> \o DecimalOf(idx)

WorkflowIssue(id, nodeId, severity, message, fixSuggestion) ==
    [id |-> id, nodeId |-> nodeId, severity |-> severity, message |-> message,
     fixSuggestion |-> fixSuggestion]

\* The callback of parsedIssues.map; times[idx + 1] is what Date.now()
\* returns in the call for the element at idx.
NormalizeIssue(issue, idx, times) ==
    WorkflowIssue(Str(IssueId(times[idx + 1], idx)),
                  OrElse(Get(issue, <<"n", "o", "d", "e", "I", "d">>), Null),
                  OrElse(Get(issue, <<"s", "e", "v", "e", "r", "i", "t", "y">>),
                         Str(<<"w", "a", "r", "n", "i", "n", "g">>)),
                  OrElse(Get(issue, <<"m", "e", "s", "s", "a", "g", "e">>),
                         Str(<<"U", "n", "k", "n", "o", "w", "n", " ", "i", "s", "s", "u", "e">>)),
                  Get(issue, <<"f", "i", "x", "S", "u", "g", "g", "e", "s", "t", "i", "o", "n">>))

\* The body of the try block of the issues: a member read of a null element
\* throws like JSON.parse does.
NormalizeIssues(parsed, times) ==
    IF ~parsed.ok THEN Fail
    ELSE IF parsed.val.t # "arr" THEN Ok(Arr(<<>>), 0)
    ELSE IF \E i \in 1..Len(parsed.val.v) : Throws(parsed.val.v[i]) THEN Fail
    ELSE Ok(Arr([i \in 1..Len(parsed.val.v) |-> NormalizeIssue(parsed.val.v[i], i - 1, times)]), 0)

\* issues of the parsing logic.
ExtractIssues(text, times) ==
    LET Region(rawIssues) ==
            IF rawIssues = <<>> THEN Arr(<<>>)
            ELSE Try(NormalizeIssues(JSONparse(cleanJsonString(rawIssues)), times), Arr(<<>>))
    IN Region(GroupOf(MatchTagged(text, IssuesTag)))

\* suggestedActions of the parsing logic, before the defaults.
ExtractActions(text) ==
    LET Items(pieces) == Arr([i \in 1..Len(pieces) |-> Str(Unquoted(trim(pieces[i])))])
        List(inner) == IF inner = <<>> THEN Arr(<<>>) ELSE Items(splitOn(inner, ","))
    IN List(GroupOf(MatchActions(text)))

\* relatedQuestions of the parsing logic.
ExtractRelated(text) ==
    LET Region(raw) ==
            IF raw = <<>> THEN Arr(<<>>)
            ELSE Try(JSONparse(cleanJsonString(raw)), Arr(<<>>))
    IN Region(GroupOf(MatchTagged(text, RelatedTag)))

\* s.replace(regexp, replacement) for an expression without the g flag and
\* a replacement without `$`.
ReplaceMatch(s, m, replacement) ==
    IF m.found THEN SubSeq(s, 1, m.from - 1) \o replacement \o SubSeq(s, m.to + 1, Len(s))
    ELSE s

\* cleanText of the parsing logic.
CleanText(text) ==
    LET NoRelated(x) == ReplaceMatch(x, MatchTagged(x, RelatedTag), <<>>)
        NoActions(x) == NoRelated(ReplaceMatch(x, MatchActions(x), <<>>))
        NoIssues(x) == NoActions(ReplaceMatch(x, MatchTagged(x, IssuesTag), <<>>))
        NoBlock(x) == NoIssues(ReplaceMatch(x, MatchFencedJson(x), i18nText("updateMessage")))
    IN trim(NoBlock(text))

GeminiResponseSchema(chatResponse, updatedWorkflow, found, suggestedActions, relatedQuestions) ==
    [chatResponse |-> chatResponse, updatedWorkflow |-> updatedWorkflow,
     issues |-> found, suggestedActions |-> suggestedActions,
     relatedQuestions |-> relatedQuestions]

\* The return of the catch of the outer try block.
ErrorResponse ==
    GeminiResponseSchema(i18nText("errorPrefix") \o <<" ">> \o <<"U", "n", "k", "n", "o", "w", "n", " ", "e", "r", "r", "o", "r">>,
                         Null, Undefined,
                         Arr(<<Str(<<"C", "h", "e", "c", "k", " ", "S", "e", "t", "t", "i", "n", "g", "s">>), Str(<<"R", "e", "t", "r", "y">>)>>),
                         Undefined)

\* A return that hands on the suggested actions as they were extracted.
ParseResponseWithoutDefaults(text, times) ==
    LET Return(updatedWorkflow, found, suggestedActions, relatedQuestions) ==
            IF Thrown \in {updatedWorkflow, found, relatedQuestions} THEN ErrorResponse
            ELSE GeminiResponseSchema(CleanText(text), updatedWorkflow, found,
                                      suggestedActions, relatedQuestions)
    IN Return(ExtractWorkflow(text), ExtractIssues(text, times),
              ExtractActions(text), ExtractRelated(text))

\* The parsing logic and the return of sendMessageToComfyAgent.
ParseResponse(text, times) ==
    LET DefaultActions == Arr(<<Str(i18nText("actionUndo")), Str(i18nText("actionExplainChanges"))>>)
        Return(updatedWorkflow, found, suggestedActions, relatedQuestions) ==
            IF Thrown \in {updatedWorkflow, found, relatedQuestions} THEN ErrorResponse
            ELSE GeminiResponseSchema(CleanText(text), updatedWorkflow, found,
                                      IF Len(suggestedActions.v) > 0 THEN suggestedActions ELSE DefaultActions,
                                      relatedQuestions)
    IN Return(ExtractWorkflow(text), ExtractIssues(text, times),
              ExtractActions(text), ExtractRelated(text))

(***************************************************************************)
(* The texts that are parsed: an opening sentence and a region of each     *)
(* kind, in one of its forms, the fenced block and the issues in either    *)
(* order.                                                                  *)
(***************************************************************************)
\* The fenced json block: none, plain JSON, JSON with comments and trailing
\* commas, a block that is not JSON, JSON with a trailing comma and an
\* address in a string, JSON with an address in a string, JSON with a comma
\* and a brace in a string.
GraphRegions ==
    [ missing |-> <<>>,
      plain |-> <<"GRAVE", "GRAVE", "GRAVE", "j", "s", "o", "n", "\n", "{", "\"", "n", "o", "d", "e", "s", "\"", ":", "[", "]", "}", "\n", "GRAVE", "GRAVE", "GRAVE", "\n">>,
      commented |-> <<"GRAVE", "GRAVE", "GRAVE", "j", "s", "o", "n", "\n", "{", " ", "/", "/", " ", "c", "\n", "\"", "n", "o", "d", "e", "s", "\"", ":", "[", "1", ",", "]", ",", " ", "/", "*", " ", "b", " ", "*", "/", "\n", "}", "\n", "GRAVE", "GRAVE", "GRAVE", "\n">>,
      malformed |-> <<"GRAVE", "GRAVE", "GRAVE", "j", "s", "o", "n", "\n", "{", "\"", "n", "o", "d", "e", "s", "\"", ":", "\n", "GRAVE", "GRAVE", "GRAVE", "\n">>,
      address |-> <<"GRAVE", "GRAVE", "GRAVE", "j", "s", "o", "n", "\n", "{", "\"", "u", "\"", ":", "\"", "h", "t", "t", "p", ":", "/", "/", "h", "\"", ",", "}", "\n", "GRAVE", "GRAVE", "GRAVE", "\n">>,
      url |-> <<"GRAVE", "GRAVE", "GRAVE", "j", "s", "o", "n", "\n", "{", "\"", "u", "\"", ":", "\"", "h", "t", "t", "p", ":", "/", "/", "h", "\"", "}", "\n", "GRAVE", "GRAVE", "GRAVE", "\n">>,
      quoted |-> <<"GRAVE", "GRAVE", "GRAVE", "j", "s", "o", "n", "\n", "{", "\"", "s", "\"", ":", "\"", "a", ",", "}", "\"", "}", "\n", "GRAVE", "GRAVE", "GRAVE", "\n">> ]

\* The ISSUES_JSON region: none, two elements of which the second has no
\* nodeId, severity and message, an array in a fence, an array that is not
\* JSON, an array with a null element, an array in a fence that is not JSON.
IssuesRegions ==
    [ missing |-> <<>>,
      plain |-> <<"I", "S", "S", "U", "E", "S", "_", "J", "S", "O", "N", ":", " ", "[", "{", "\"", "n", "o", "d", "e", "I", "d", "\"", ":", "3", ",", "\"", "s", "e", "v", "e", "r", "i", "t", "y", "\"", ":", "\"", "e", "r", "r", "o", "r", "\"", ",", "\"", "m", "e", "s", "s", "a", "g", "e", "\"", ":", "\"", "m", "\"", "}", ",", "{", "\"", "f", "i", "x", "S", "u", "g", "g", "e", "s", "t", "i", "o", "n", "\"", ":", "\"", "f", "\"", "}", "]", "\n">>,
      fenced |-> <<"I", "S", "S", "U", "E", "S", "_", "J", "S", "O", "N", ":", " ", "GRAVE", "GRAVE", "GRAVE", "j", "s", "o", "n", "\n", "[", "{", "\"", "m", "e", "s", "s", "a", "g", "e", "\"", ":", "\"", "m", "\"", "}", "]", "\n", "GRAVE", "GRAVE", "GRAVE", "\n">>,
      malformed |-> <<"I", "S", "S", "U", "E", "S", "_", "J", "S", "O", "N", ":", " ", "[", "{", "\"", "m", "e", "s", "s", "a", "g", "e", "\"", ":", "}", "]", "\n">>,
      null |-> <<"I", "S", "S", "U", "E", "S", "_", "J", "S", "O", "N", ":", " ", "[", "n", "u", "l", "l", "]", "\n">>,
      fencedMalformed |-> <<"I", "S", "S", "U", "E", "S", "_", "J", "S", "O", "N", ":", " ", "GRAVE", "GRAVE", "GRAVE", "j", "s", "o", "n", "\n", "[", "{", "\"", "m", "e", "s", "s", "a", "g", "e", "\"", ":", "}", "]", "\n", "GRAVE", "GRAVE", "GRAVE", "\n">> ]

\* The RELATED_QUESTIONS region: none, complete, cut off inside an element.
RelatedRegions ==
    [ missing |-> <<>>,
      plain |-> <<"R", "E", "L", "A", "T", "E", "D", "_", "Q", "U", "E", "S", "T", "I", "O", "N", "S", ":", " ", "[", "\"", "Q", "1", "\"", ",", " ", "\"", "Q", "2", "\"", "]", "\n">>,
      truncated |-> <<"R", "E", "L", "A", "T", "E", "D", "_", "Q", "U", "E", "S", "T", "I", "O", "N", "S", ":", " ", "[", "\"", "Q", "1", "\"", ",", " ", "\"", "Q">> ]

\* The SUGGESTED_ACTIONS region: none, two items, an empty list.
ActionsRegions ==
    [ missing |-> <<>>,
      plain |-> <<"\n", "S", "U", "G", "G", "E", "S", "T", "E", "D", "_", "A", "C", "T", "I", "O", "N", "S", ":", " ", "[", "F", "i", "x", " ", "i", "t", ",", " ", "\"", "U", "n", "d", "o", "\"", "]", "\n">>,
      empty |-> <<"\n", "S", "U", "G", "G", "E", "S", "T", "E", "D", "_", "A", "C", "T", "I", "O", "N", "S", ":", " ", "[", "]", "\n">>,
      apostrophe |-> <<"\n", "S", "U", "G", "G", "E", "S", "T", "E", "D", "_", "A", "C", "T", "I", "O", "N", "S", ":", " ", "[", "\"", "D", "o", "n", "'", "t", " ", "s", "t", "o", "p", "\"", ",", " ", "U", "n", "d", "o", "]", "\n">> ]

Opening == <<"D", "o", "n", "e", ".", " ">>

Forms(regions) == {regions[k] : k \in DOMAIN regions}

\* The fenced block comes before the issues or after them.
Assemble(graph, issuesRegion, related, actions, graphFirst) ==
    IF graphFirst THEN Opening \o graph \o issuesRegion \o related \o actions
    ELSE Opening \o issuesRegion \o graph \o related \o actions

Texts ==
    {Assemble(g, i, r, a, first) : g \in Forms(GraphRegions), i \in Forms(IssuesRegions),
                                   r \in Forms(RelatedRegions), a \in Forms(ActionsRegions),
                                   first \in BOOLEAN}

\* The workflow and the issues of the application before the response.
CurrentWorkflow == Obj(<<Member(<<"n", "o", "d", "e", "s">>, Arr(<<Num(<<"7">>)>>))>>)

EarlierIssues ==
    <<WorkflowIssue(Str(<<"e", "x", "e", "c", "-", "1">>), Null, Str(<<"e", "r", "r", "o", "r">>),
                    Str(<<"o", "l", "d">>), Undefined)>>

\* What Date.now() may return in the calls of one map: the clock does not
\* go back.
MaxIssues == 2
Times == {41, 42}

ClockReadings ==
    {times \in [1..MaxIssues -> Times] : \A i \in 1..(MaxIssues - 1) : times[i] <= times[i + 1]}

NoResponse == GeminiResponseSchema(<<>>, Null, Undefined, Undefined, Undefined)

ExtractIdle ==
    /\ textResponse = <<>>
    /\ response = NoResponse
    /\ xpc = "idle"
    /\ workflow = CurrentWorkflow
    /\ canvas = CurrentWorkflow
    /\ issues = <<>>
    /\ visualizerTab = "preview"

\* The adapter has returned textResponse to sendMessageToComfyAgent, which
\* handleSendMessage awaits.
ExtractInit ==
    /\ textResponse \in Texts
    /\ response = NoResponse
    /\ xpc = "parsing"
    /\ workflow = CurrentWorkflow
    /\ canvas = CurrentWorkflow
    /\ issues \in {<<>>, EarlierIssues}
    /\ visualizerTab = "preview"

\* sendMessageToComfyAgent from the return of the adapter to its own.
sendMessageToComfyAgent_Parse ==
    /\ xpc = "parsing"
    /\ \E times \in ClockReadings : response' = ParseResponse(textResponse, times)
    /\ xpc' = "resolved"
    /\ UNCHANGED <<templateVars, adapterVars, sessionVars>>
    /\ UNCHANGED <<textResponse, workflow, canvas, issues, visualizerTab>>

\* if (response.updatedWorkflow)
Applies(resp) == Truthy(resp.updatedWorkflow)

\* if (response.issues): an empty list is taken over as well.
ReportsWhenPresent(resp) == Truthy(resp.issues)

\* if (response.issues && response.issues.length > 0)
Reports(resp) == Truthy(resp.issues) /\ Len(resp.issues.v) > 0

\* handleSendMessage after `await sendMessageToComfyAgent(...)`: the
\* workflow and the issues of the response are taken over.
handleSendMessage_Response ==
    /\ xpc = "resolved"
    /\ IF Applies(response)
       THEN /\ workflow' = response.updatedWorkflow
            /\ canvas' = response.updatedWorkflow
       ELSE UNCHANGED <<workflow, canvas>>
    /\ IF Reports(response)
       THEN /\ issues' = response.issues.v
            /\ visualizerTab' = "analysis"
       ELSE UNCHANGED <<issues, visualizerTab>>
    /\ xpc' = "done"
    /\ UNCHANGED <<templateVars, adapterVars, sessionVars>>
    /\ UNCHANGED <<textResponse, response>>

(***************************************************************************)
(* The adapter calls that are explored                                     *)
(***************************************************************************)
Hi == <<"h", "i">>

Prompts == {Hi, <<"a", "\"", "b">>}

CustomSettings ==
    { Settings("custom", FALSE, baseUrl, <<>>, apiKey, <<>>, <<"m", "1">>, <<>>, headers, body) :
        baseUrl \in {<<>>, <<"h", "t", "t", "p", ":", "/", "/", "h">>, <<"h", "t", "t", "p", ":", "/", "/", "h", "/">>},
        apiKey \in {<<"k">>, <<"a", "\"", "b">>},
        headers \in {<<>>, <<"{", "\"", "k", "\"", ":", "\"", "$", "a", "p", "i", "K", "e", "y", "\"", "}">>, <<"{", "\"", "k", "\"", ":", "$", "a", "p", "i", "K", "e", "y", "}">>},
        body \in {<<>>, <<"{", "\"", "m", "\"", ":", "$", "m", "e", "s", "s", "a", "g", "e", "s", "}">>, <<"{", "\"", "p", "\"", ":", "\"", "$", "u", "s", "e", "r", "_", "p", "r", "o", "m", "p", "t", "\"", "}">>, <<"{", "\"", "s", "\"", ":", "\"", "$", "s", "y", "s", "t", "e", "m", "\"", "}">>} }

GoogleSettings ==
    { Settings("google", FALSE, <<>>, <<>>, apiKey, envApiKey, <<>>, <<>>, <<>>, <<>>) :
        apiKey \in {<<>>, <<"k">>}, envApiKey \in {<<>>, <<"e">>} }

\* The orchestration server is switched on in settings that are complete for
\* the provider they name.
PythonSettings ==
    { Settings(provider, TRUE, <<"h", "t", "t", "p", ":", "/", "/", "h">>, pythonBackendUrl, <<"k">>, <<>>, <<"m", "1">>, <<>>, <<>>, <<>>) :
        provider \in {"google", "custom"},
        pythonBackendUrl \in {<<>>, <<"p", "/">>} }

SettingsSet == CustomSettings \cup GoogleSettings \cup PythonSettings

\* Only callPythonBackendStream is handed the status callback, and only
\* callCustomLLM puts the prompt through a template.
AdapterInit ==
    /\ settings \in SettingsSet
    /\ prompt \in (IF SelectedAdapter(settings) = "custom" THEN Prompts ELSE {Hi})
    /\ onStream \in BOOLEAN
    /\ onStatus \in (IF SelectedAdapter(settings) = "python" THEN BOOLEAN ELSE {FALSE})
    /\ pc = "start"
    /\ net = <<>>
    /\ inbox = <<>>
    /\ buffer = <<>>
    /\ fullText = <<>>
    /\ allSources = <<>>
    /\ deltas = <<>>
    /\ statuses = <<>>
    /\ calls = <<>>
    /\ received = <<>>
    /\ ret = NoReturn
    /\ err = NoError

\* No adapter call is under way.
CallIdle ==
    /\ prompt = <<>>
    /\ onStream = FALSE
    /\ onStatus = FALSE
    /\ pc = "idle"
    /\ net = <<>>
    /\ inbox = <<>>
    /\ buffer = <<>>
    /\ fullText = <<>>
    /\ allSources = <<>>
    /\ deltas = <<>>
    /\ statuses = <<>>
    /\ calls = <<>>
    /\ received = <<>>
    /\ ret = NoReturn
    /\ err = NoError

AdapterIdle == settings = <<>> /\ CallIdle

(***************************************************************************)
(* handleSendMessage and the state of App around it                        *)
(*                                                                         *)
(* A send trigger is a discrete event of the page: the updates its handler *)
(* makes are rendered before the next event is handled.  The updates made  *)
(* by stream callbacks and after an await are rendered later.              *)
(***************************************************************************)
\* The sends, the triggers and the pending history loads of a session, and
\* the steps of the user that change the canvas or the workflow or close the
\* panel.
MaxSends == 2
MaxTriggers == 2
MaxLoads == 1
MaxEdits == 2

ChatMessage(id, sender, text, timestamp, metadata) ==
    [id |-> id, sender |-> sender, text |-> text, timestamp |-> timestamp,
     metadata |-> metadata]

\* const getWorkflowId = useCallback((wf) => ...)
getWorkflowId(wf) ==
    LET extra == Get(wf, <<"e", "x", "t", "r", "a">>)
        info == Get(extra, <<"w", "o", "r", "k", "s", "p", "a", "c", "e", "_", "i", "n", "f", "o">>)
    IN IF ~Truthy(wf) THEN Null
       ELSE IF Truthy(Get(wf, <<"i", "d">>)) THEN Get(wf, <<"i", "d">>)
       ELSE IF Truthy(extra) /\ Truthy(info) /\ Truthy(Get(info, <<"i", "d">>)) THEN Get(info, <<"i", "d">>)
       ELSE IF Truthy(extra) /\ Truthy(Get(extra, <<"i", "d">>)) THEN Get(extra, <<"i", "d">>)
       ELSE Null

\* What a render shows and the callbacks made by it close over;
\* activeSessionId is the value of the useMemo, whose result changes only
\* with the workflow or with the reference it falls back to.
View(msgs, processing, wf, found, text, visible, ref) ==
    [messages |-> msgs, isProcessing |-> processing, workflow |-> wf,
     issues |-> found, input |-> text, isVisible |-> visible,
     activeSessionId |-> OrElse(getWorkflowId(wf), ref)]

\* The effect that loads the chat history runs after a render that changed
\* one of its dependencies, and gets past its early return.
LoadStarts(old, new, last) ==
    /\ settings.usePythonBackend /\ settings.pythonBackendUrl # <<>> /\ new.isVisible
    /\ <<old.isVisible, old.activeSessionId, old.isProcessing>>
          # <<new.isVisible, new.activeSessionId, new.isProcessing>>
    /\ ~(new.activeSessionId = last \/ new.isProcessing)

\* A render of the state given after the render `old`, and the history
\* effect after it:
\* sessionIdRef.current = activeSessionId; loadHistory().
Rerender(old, msgs, processing, wf, found, text, visible, ref, last, pending) ==
    LET Then(new) ==
            /\ rendered' = new
            /\ IF LoadStarts(old, new, last)
               THEN /\ Len(pending) < MaxLoads
                    /\ sessionIdRef' = new.activeSessionId
                    /\ loads' = Append(pending, new.activeSessionId)
               ELSE /\ sessionIdRef' = ref
                    /\ loads' = pending
    IN Then(View(msgs, processing, wf, found, text, visible, ref))

\* `${value}` in a template literal, for a value that is not an object.
Interpolated(val) == IF val.t = "null" THEN NullText ELSE String(val)

\* issues.filter(i => i.severity === 'error')
\*       .map(i => `Node ${i.nodeId}: ${i.message}`).join('\n')
ActiveErrors(found) ==
    LET errors == SelectSeq(found, LAMBDA i : i.severity = Str(<<"e", "r", "r", "o", "r">>))
        lines == [k \in 1..Len(errors) |->
                     <<"N", "o", "d", "e", " ">> \o Interpolated(errors[k].nodeId) \o <<":", " ">> \o Interpolated(errors[k].message)]
    IN Join(lines, <<"\n">>)

\* messages.slice(-5).map((m) => `${m.sender}: ${m.text}`)
MaxHistory == 5

HistoryText(msgs) ==
    LET recent == SubSeq(msgs, Max({1, Len(msgs) - MaxHistory + 1}), Len(msgs))
    IN [k \in 1..Len(recent) |-> recent[k].sender \o <<":", " ">> \o recent[k].text]

\* currentWorkflow?.nodes?.map(n => ({id: n.id, type: n.type,
\*                                   title: n.properties?.['Node name for S&R']})) || []
NodesSummary(wf) ==
    LET nodes == OptGet(wf, <<"n", "o", "d", "e", "s">>)
        Summary(n) == Obj(<<Member(<<"i", "d">>, Get(n, <<"i", "d">>)), Member(<<"t", "y", "p", "e">>, Get(n, <<"t", "y", "p", "e">>)),
                            Member(<<"t", "i", "t", "l", "e">>, OptGet(Get(n, <<"p", "r", "o", "p", "e", "r", "t", "i", "e", "s">>), <<"N", "o", "d", "e", " ", "n", "a", "m", "e", " ", "f", "o", "r", " ", "S", "&", "R">>))>>)
    IN IF nodes.t = "arr" THEN Arr([k \in 1..Len(nodes.v) |-> Summary(nodes.v[k])]) ELSE Arr(<<>>)

\* ${currentWorkflow?.nodes?.length || 0}
NodeCount(wf) ==
    LET nodes == OptGet(wf, <<"n", "o", "d", "e", "s">>)
    IN IF nodes.t = "arr" THEN DecimalOf(Len(nodes.v)) ELSE <<"0">>

\* The prompt sendMessageToComfyAgent assembles, without the indentation of
\* its lines and the fixed lines under [INSTRUCTIONS].
AssembledPrompt(wf, userPrompt, errorLog) ==
    <<"[", "C", "U", "R", "R", "E", "N", "T", " ", "W", "O", "R", "K", "F", "L", "O", "W", " ", "S", "T", "A", "T", "E", "]", "\n", "N", "o", "d", "e", " ", "C", "o", "u", "n", "t", ":", " ">> \o NodeCount(wf)
    \o <<"\n", "N", "o", "d", "e", "s", " ", "S", "u", "m", "m", "a", "r", "y", ":", " ">> \o stringify(NodesSummary(wf))
    \o <<"\n", "\n", "[", "F", "U", "L", "L", " ", "W", "O", "R", "K", "F", "L", "O", "W", " ", "J", "S", "O", "N", "]", "\n">> \o stringify(wf) \o <<"\n">>
    \o (IF errorLog # <<>>
        THEN <<"\n", "[", "R", "U", "N", "T", "I", "M", "E", " ", "E", "R", "R", "O", "R", "S", "]", "\n", "T", "h", "e", " ", "u", "s", "e", "r", " ", "e", "n", "c", "o", "u", "n", "t", "e", "r", "e", "d", " ", "t", "h", "e", " ", "f", "o", "l", "l", "o", "w", "i", "n", "g", " ", "e", "r", "r", "o", "r", "s", " ", "d", "u", "r", "i", "n", "g", " ", "e", "x", "e", "c", "u", "t", "i", "o", "n", ":", "\n">> \o errorLog \o <<"\n">>
        ELSE <<>>)
    \o <<"\n", "[", "U", "S", "E", "R", " ", "R", "E", "Q", "U", "E", "S", "T", "]", "\n", "\"">> \o userPrompt \o <<"\"", "\n", "\n", "[", "I", "N", "S", "T", "R", "U", "C", "T", "I", "O", "N", "S", "]", "\n">>

Language == <<"e", "n">>

\* const payload = {...} of callPythonBackendStream
PythonPayload(message, wf, sessionId, errorLog) ==
    Obj(<<Member(<<"m", "e", "s", "s", "a", "g", "e">>, Str(message)), Member(<<"w", "o", "r", "k", "f", "l", "o", "w">>, wf),
          Member(<<"s", "e", "s", "s", "i", "o", "n", "_", "i", "d">>, sessionId), Member(<<"e", "r", "r", "o", "r", "_", "l", "o", "g">>, Str(errorLog)),
          Member(<<"l", "a", "n", "g", "u", "a", "g", "e">>, Str(Language)), Member(<<"c", "o", "n", "f", "i", "g", "_", "i", "d">>, Undefined)>>)

\* What sendMessageToComfyAgent hands to the adapter it selects, as the text
\* the adapter puts into its request: the payload of the orchestration
\* adapter, the prompt of the other two.  The history is a parameter that
\* the function does not read.
Outbound(s, wf, userPrompt, history, sessionId, errorLog) ==
    IF SelectedAdapter(s) = "python"
    THEN [adapter |-> "python", text |-> stringify(PythonPayload(userPrompt, wf, sessionId, errorLog))]
    ELSE [adapter |-> SelectedAdapter(s), text |-> AssembledPrompt(wf, userPrompt, errorLog)]

\* A catch that returns the fields of a reply in which nothing was found.
CaughtResponseWithFields(message) ==
    GeminiResponseSchema(i18nText("errorPrefix") \o <<" ">> \o (IF message # <<>> THEN message ELSE <<"U", "n", "k", "n", "o", "w", "n", " ", "e", "r", "r", "o", "r">>),
                         Null, Arr(<<>>),
                         Arr(<<Str(<<"C", "h", "e", "c", "k", " ", "S", "e", "t", "t", "i", "n", "g", "s">>), Str(<<"R", "e", "t", "r", "y">>)>>),
                         Arr(<<>>))

\* The return of the catch of the outer try block for an error with a
\* message.
CaughtResponse(message) ==
    GeminiResponseSchema(i18nText("errorPrefix") \o <<" ">> \o (IF message # <<>> THEN message ELSE <<"U", "n", "k", "n", "o", "w", "n", " ", "e", "r", "r", "o", "r">>),
                         Null, Undefined,
                         Arr(<<Str(<<"C", "h", "e", "c", "k", " ", "S", "e", "t", "t", "i", "n", "g", "s">>), Str(<<"R", "e", "t", "r", "y">>)>>),
                         Undefined)

\* {...metadata, [k]: val}; a message without metadata has the empty one.
With(metadata, k, val) ==
    [x \in (DOMAIN metadata) \cup {k} |-> IF x = k THEN val ELSE metadata[x]]

\* A reconciliation that adds the accumulated text to the text shown.
ReconciledAppending(msgs, aiMsgId, accumulatedText) ==
    [k \in 1..Len(msgs) |->
        IF msgs[k].id = aiMsgId
        THEN [msgs[k] EXCEPT !.text = @ \o accumulatedText,
                             !.metadata = With(@, "thinking", Bool(FalseText))]
        ELSE msgs[k]]

\* prev.map((m) => m.id === aiMsgId
\*     ? { ...m, text: accumulatedText, metadata: { ...m.metadata, thinking: false } } : m)
Reconciled(msgs, aiMsgId, accumulatedText) ==
    [k \in 1..Len(msgs) |->
        IF msgs[k].id = aiMsgId
        THEN [msgs[k] EXCEPT !.text = accumulatedText,
                             !.metadata = With(@, "thinking", Bool(FalseText))]
        ELSE msgs[k]]

\* The metadata of the final update (missingNodes and groundingSources are
\* not part of the responses of this model).
FinalMetadata(resp, s) ==
    [workflowUpdate |-> Bool(IF Truthy(resp.updatedWorkflow) THEN TrueText ELSE FalseText),
     suggestedActions |-> resp.suggestedActions,
     relatedQuestions |-> resp.relatedQuestions,
     provider |-> IF s.usePythonBackend THEN "Python Backend" ELSE s.provider]

\* prev.map((m) => m.id === aiMsgId ? {...m, text: response.chatResponse, metadata: {...}} : m)
Finalized(msgs, aiMsgId, resp, s) ==
    [k \in 1..Len(msgs) |->
        IF msgs[k].id = aiMsgId
        THEN [msgs[k] EXCEPT !.text = resp.chatResponse, !.metadata = FinalMetadata(resp, s)]
        ELSE msgs[k]]

\* [...].sort((a, b) => a.timestamp.getTime() - b.timestamp.getTime()):
\* the sort keeps the order of messages of one time.
RECURSIVE SortedByTimestamp(_)
SortedByTimestamp(msgs) ==
    IF msgs = <<>> THEN <<>>
    ELSE LET last == msgs[Len(msgs)]
             Placed(sorted) ==
                 LET before == SelectSeq(sorted, LAMBDA m : m.timestamp <= last.timestamp)
                     after == SelectSeq(sorted, LAMBDA m : m.timestamp > last.timestamp)
                 IN before \o <<last>> \o after
         IN Placed(SortedByTimestamp(SubSeq(msgs, 1, Len(msgs) - 1)))

\* What fetchChatHistory makes of the array the server returns.
HistoryMessages(rawHistory, now) ==
    [idx \in 1..Len(rawHistory) |->
        ChatMessage(<<"h", "i", "s", "t", "-">> \o DecimalOf(idx - 1) \o <<"-">> \o DecimalOf(now),
                    IF rawHistory[idx].sender = <<"u", "s", "e", "r">> THEN <<"u", "s", "e", "r">> ELSE <<"a", "i">>,
                    rawHistory[idx].text,
                    IF rawHistory[idx].timestamp # 0 THEN rawHistory[idx].timestamp ELSE now,
                    IF rawHistory[idx].sender = <<"a", "i">> THEN [provider |-> "History"] ELSE <<>>)]

\* `${m.sender}:${m.text.trim()}`
Signature(m) == m.sender \o <<":">> \o trim(m.text)

\* The updater loadHistory passes to setMessages.
Merged(prev, hist) ==
    LET existingSignatures == {Signature(prev[k]) : k \in 1..Len(prev)}
        newMsgs == SelectSeq(hist, LAMBDA h : Signature(h) \notin existingSignatures)
    IN IF Len(prev) = 1 /\ prev[1].id = <<"i", "n", "i", "t", "-", "1">> THEN hist
       ELSE IF newMsgs = <<>> THEN prev
       ELSE SortedByTimestamp(prev \o newMsgs)

\* A send that goes ahead although another one is being processed.
RejectedWhenEmpty(textToSend, processing) == trim(textToSend) = <<>>

\* if (!textToSend.trim() || isProcessing) return
Rejected(textToSend, processing) == trim(textToSend) = <<>> \/ processing

\* if (!appSettings.usePythonBackend && !appSettings.apiKey && appSettings.provider === 'custom')
NeedsSettings(s) == ~s.usePythonBackend /\ s.apiKey = <<>> /\ s.provider = "custom"

\* One call of sendMessageToComfyAgent by handleSendMessage: the locals of
\* the handler, what the adapter is still to do (its callback invocations,
\* then its return or its error), and the state before the turn.
Flight(aiMsgId, script, outbound, textToSend, historyText, sessionId, errorLog, fix, before) ==
    [aiMsgId |-> aiMsgId, accumulatedText |-> <<>>, script |-> script.calls,
     fails |-> script.fails, error |-> script.error, outbound |-> outbound,
     textToSend |-> textToSend, historyText |-> historyText, sessionId |-> sessionId,
     errorLog |-> errorLog, fix |-> fix,
     before |-> before, delivered |-> <<>>, open |-> TRUE]

(***************************************************************************)
(* The sessions that are explored                                          *)
(***************************************************************************)
RandomToken == Str(<<"s", "e", "s", "s", "i", "o", "n", "-", "1", "-", "r">>)

\* Graphs that carry an identifier in each of the three places, and one
\* that carries none.
Identified(id, workspaceId, extraId) ==
    Obj(<<Member(<<"i", "d">>, id),
          Member(<<"e", "x", "t", "r", "a">>,
                 Obj(<<Member(<<"w", "o", "r", "k", "s", "p", "a", "c", "e", "_", "i", "n", "f", "o">>,
                              Obj(<<Member(<<"i", "d">>, workspaceId)>>)),
                       Member(<<"i", "d">>, extraId)>>))>>)

\* The graphs the canvas and the visualizer hold in a session: one without
\* an identifier and one with identifiers under `extra`.
Graphs == { CurrentWorkflow, Identified(Undefined, Str(<<"b">>), Str(<<"c">>)) }

Inputs == {<<"h", "i">>}

SessionSettings ==
    { Settings("google", TRUE, <<>>, <<"h", "t", "t", "p", ":", "/", "/", "p">>, <<>>, <<>>, <<>>, <<>>, <<>>, <<>>),
      Settings("google", FALSE, <<>>, <<>>, <<"k">>, <<>>, <<"m", "1">>, <<>>, <<>>, <<>>),
      Settings("custom", FALSE, <<"h", "t", "t", "p", ":", "/", "/", "h">>, <<>>, <<"k">>, <<>>, <<"m", "1">>, <<>>, <<>>, <<>>),
      Settings("custom", FALSE, <<"h", "t", "t", "p", ":", "/", "/", "h">>, <<>>, <<>>, <<>>, <<"m", "1">>, <<>>, <<>>, <<>>) }

\* A reply with a workflow that carries an identifier, and an issue.
GraphReply ==
    <<"O", "k", ".", " ", "GRAVE", "GRAVE", "GRAVE", "j", "s", "o", "n", "\n", "{", "\"", "i", "d", "\"", ":", "\"", "a", "\"", "}", "\n", "GRAVE", "GRAVE", "GRAVE", "\n", "I", "S", "S", "U", "E", "S", "_", "J", "S", "O", "N", ":", " ", "[", "{", "\"", "s", "e", "v", "e", "r", "i", "t", "y", "\"", ":", "\"", "e", "r", "r", "o", "r", "\"", ",", "\"", "m", "e", "s", "s", "a", "g", "e", "\"", ":", "\"", "m", "\"", "}", "]", "\n">>

Working == AgentStatus(Str(<<"n">>), Str(<<"P", "r", "o", "c", "e", "s", "s", "i", "n", "g", ".", ".", ".">>), Str(<<"p", "r", "o", "c", "e", "s", "s", "i", "n", "g">>), Undefined)

\* A reply that reads as the response returned for an error reads.
ErrorLikeReply ==
    i18nText("errorPrefix") \o <<" ", "F", "a", "i", "l", "e", "d", " ", "t", "o", " ", "f", "e", "t", "c", "h", "\n", "S", "U", "G", "G", "E", "S", "T", "E", "D", "_", "A", "C", "T", "I", "O", "N", "S", ":", " ", "[", "C", "h", "e", "c", "k", " ", "S", "e", "t", "t", "i", "n", "g", "s", ",", " ", "R", "e", "t", "r", "y", "]", "\n">>

\* What an adapter may do in a call: the custom adapter fails before
\* anything is received, delivers a reply whole, or delivers a reply that
\* reads as an error; the other two fail after
\* a fragment, stream a text in two fragments (the orchestration adapter
\* after a status), or deliver a reply in one fragment.
Script(invocations, fails, error) == [calls |-> invocations, fails |-> fails, error |-> error]

Scripts(adapter) ==
    { Script(<<Call("onStream", GraphReply)>>, FALSE, <<>>) }
    \cup (IF adapter = "custom"
          THEN { Script(<<>>, TRUE, <<"F", "a", "i", "l", "e", "d", " ", "t", "o", " ", "f", "e", "t", "c", "h">>),
                 Script(<<Call("onStream", ErrorLikeReply)>>, FALSE, <<>>) }
          ELSE { Script(<<Call("onStream", <<"H", "e", "l">>)>>, TRUE, <<"n", "e", "t", "w", "o", "r", "k", " ", "e", "r", "r", "o", "r">>) })
    \cup (IF adapter = "python"
          THEN { Script(<<Call("onStatus", Working), Call("onStream", <<"H", "e", "l">>), Call("onStream", <<"l", "o">>)>>, FALSE, <<>>) }
          ELSE IF adapter = "google"
          THEN { Script(<<Call("onStream", <<"H", "e", "l">>), Call("onStream", <<"l", "o">>)>>, FALSE, <<>>) }
          ELSE {})

\* What the server returns for a session: nothing, or one earlier answer.
ServedHistories == { <<>>, <<[sender |-> <<"a", "i">>, text |-> <<"o", "l", "d">>, timestamp |-> 1]>> }

InitialMessage ==
    ChatMessage(<<"i", "n", "i", "t", "-", "1">>, <<"a", "i">>, i18nText("welcome"), 2,
                [suggestedActions |-> Arr(<<Str(i18nText("initActionExplain")), Str(i18nText("initActionCheck"))>>)])

SessionIdle ==
    /\ messages = <<>>
    /\ input = <<>>
    /\ isProcessing = FALSE
    /\ currentStatus = Null
    /\ isVisible = FALSE
    /\ isSettingsOpen = FALSE
    /\ executionErrorLog = Null
    /\ sessionIdRef = Null
    /\ lastLoadedSessionId = Null
    /\ rendered = <<>>
    /\ flights = <<>>
    /\ loads = <<>>
    /\ clock = 0
    /\ triggers = <<>>
    /\ edits = 0

\* App with the panel closed, after an execution error was reported.
SessionInit ==
    /\ settings \in SessionSettings
    /\ messages = <<InitialMessage>>
    /\ input = <<>>
    /\ isProcessing = FALSE
    /\ currentStatus = Null
    /\ isVisible = FALSE
    /\ isSettingsOpen = FALSE
    /\ executionErrorLog = Str(<<"E">>)
    /\ issues = EarlierIssues
    /\ sessionIdRef = RandomToken
    /\ lastLoadedSessionId = Null
    /\ workflow = CurrentWorkflow
    /\ canvas = CurrentWorkflow
    /\ visualizerTab = "preview"
    /\ rendered = View(messages, FALSE, workflow, issues, <<>>, FALSE, RandomToken)
    /\ flights = <<>>
    /\ loads = <<>>
    /\ clock = 2
    /\ triggers = <<>>
    /\ edits = 0
    /\ response = NoResponse
    /\ textResponse = <<>>
    /\ xpc = "idle"

\* App with the panel open: the state in which the first opening of the
\* panel leaves the session above (with the orchestration server, the load
\* of the history has started).
TurnInit ==
    /\ settings \in SessionSettings
    /\ messages = <<InitialMessage>>
    /\ input = <<>>
    /\ isProcessing = FALSE
    /\ currentStatus = Null
    /\ isVisible = TRUE
    /\ isSettingsOpen = FALSE
    /\ executionErrorLog = Str(<<"E">>)
    /\ issues = EarlierIssues
    /\ sessionIdRef = RandomToken
    /\ lastLoadedSessionId = Null
    /\ workflow = CurrentWorkflow
    /\ canvas = CurrentWorkflow
    /\ visualizerTab = "preview"
    /\ rendered = View(messages, FALSE, workflow, issues, <<>>, TRUE, RandomToken)
    /\ flights = <<>>
    /\ loads = IF settings.usePythonBackend THEN <<RandomToken>> ELSE <<>>
    /\ clock = 2
    /\ triggers = <<>>
    /\ edits = 1
    /\ response = NoResponse
    /\ textResponse = <<>>
    /\ xpc = "idle"

(***************************************************************************)
(* The steps of a session                                                  *)
(***************************************************************************)
\* The calls of sendMessageToComfyAgent that have not returned.
InFlight == {i \in 1..Len(flights) : flights[i].open}

\* handleSendMessage from its call to the await of sendMessageToComfyAgent,
\* and the render of the updates it makes.
Send(overrideText, overrideErrorLog) ==
    LET textToSend == String(OrElse(overrideText, Str(rendered.input)))
        currentWorkflow == canvas
        errorLog == IF Truthy(overrideErrorLog) THEN String(overrideErrorLog)
                    ELSE ActiveErrors(rendered.issues)
        effectiveSessionId == OrElse(getWorkflowId(currentWorkflow), sessionIdRef)
        lastLoaded == OrElse(getWorkflowId(currentWorkflow), lastLoadedSessionId)
        before == [workflow |-> workflow, canvas |-> canvas, issues |-> issues, messages |-> messages]
        Placeholder(aiMsgId, now) ==
            ChatMessage(aiMsgId, <<"a", "i">>, <<>>, now, [thinking |-> Bool(TrueText)])
        Shown(msgs) ==
            Rerender(rendered, msgs, TRUE, currentWorkflow, issues, <<>>, isVisible,
                     effectiveSessionId, lastLoaded, loads)
        Begin(aiMsgId, now) ==
            /\ messages' = messages \o <<ChatMessage(DecimalOf(clock), <<"u", "s", "e", "r">>, textToSend, clock, <<>>),
                                         Placeholder(aiMsgId, now)>>
            /\ \E script \in Scripts(SelectedAdapter(settings)) :
                  flights' = Append(flights,
                                    Flight(aiMsgId, script,
                                           Outbound(settings, currentWorkflow, textToSend,
                                                    HistoryText(rendered.messages),
                                                    effectiveSessionId, errorLog),
                                           textToSend, HistoryText(rendered.messages),
                                           effectiveSessionId, errorLog,
                                           Truthy(overrideErrorLog), before))
            /\ clock' = now
            /\ Shown(messages')
        Trigger(outcome) == [outcome |-> outcome, underWay |-> InFlight # {}]
    IN /\ triggers' = Append(triggers, Trigger(IF Rejected(textToSend, rendered.isProcessing) THEN "rejected"
                                                 ELSE IF NeedsSettings(settings) THEN "settings"
                                                 ELSE "sent"))
       /\ IF Rejected(textToSend, rendered.isProcessing)
          THEN UNCHANGED <<messages, input, isProcessing, currentStatus, isSettingsOpen,
                           sessionIdRef, lastLoadedSessionId, rendered, flights, loads,
                           clock, workflow>>
          ELSE IF NeedsSettings(settings)
          THEN /\ isSettingsOpen' = TRUE
               /\ Rerender(rendered, messages, isProcessing, workflow, issues, input, isVisible,
                           sessionIdRef, lastLoadedSessionId, loads)
               /\ UNCHANGED <<messages, input, isProcessing, currentStatus,
                              lastLoadedSessionId, flights, clock, workflow>>
          ELSE /\ Len(flights) < MaxSends
               /\ workflow' = currentWorkflow
               /\ input' = <<>>
               /\ isProcessing' = TRUE
               /\ currentStatus' = Null
               /\ lastLoadedSessionId' = lastLoaded
               /\ Begin(DecimalOf(clock + 1), clock)
               /\ UNCHANGED isSettingsOpen
       /\ UNCHANGED <<settings, canvas, issues, visualizerTab, response, isVisible,
                      executionErrorLog, edits, idleVars>>

\* The send button and the Enter key: onSend={() => handleSendMessage()}
onSend ==
    /\ isVisible
    /\ Len(triggers) < MaxTriggers
    /\ Send(Undefined, Undefined)

\* const handleActionClick = (action) => handleSendMessage(action), for a
\* suggested action or a related question of a message.
handleActionClick ==
    /\ isVisible
    /\ Len(triggers) < MaxTriggers
    /\ Send(Str(<<"R", "e", "t", "r", "y">>), Undefined)

handleFixError ==
    /\ isVisible
    /\ Len(triggers) < MaxTriggers
    /\ Truthy(executionErrorLog)
    /\ Send(Str(<<"F", "i", "x", " ", "t", "h", "i", "s", " ", "r", "u", "n", "t", "i", "m", "e", " ", "e", "r", "r", "o", "r", ".">>), executionErrorLog)

\* onChange={(e) => setInput(e.target.value)}
setInput ==
    /\ isVisible
    /\ \E text \in Inputs :
          /\ text # input
          /\ input' = text
          /\ Rerender(rendered, messages, isProcessing, workflow, issues, text, isVisible,
                      sessionIdRef, lastLoadedSessionId, loads)
    /\ UNCHANGED <<messages, isProcessing, currentStatus, isVisible, isSettingsOpen,
                   executionErrorLog, lastLoadedSessionId, flights, clock, triggers, edits>>
    /\ UNCHANGED <<settings, workflow, canvas, issues, visualizerTab, response, idleVars>>

\* The delta callback handleSendMessage passes, called by the adapter.
handleSendMessage_onStream ==
    /\ \E i \in 1..Len(flights) :
          /\ flights[i].open
          /\ flights[i].script # <<>>
          /\ Head(flights[i].script).cb = "onStream"
          /\ LET Grown(chunk, accumulatedText) ==
                     /\ flights' = [flights EXCEPT ![i].script = Tail(@),
                                                   ![i].accumulatedText = accumulatedText,
                                                   ![i].delivered = Append(@, chunk)]
                     /\ messages' = Reconciled(messages, flights[i].aiMsgId, accumulatedText)
                 Delta(chunk) == Grown(chunk, flights[i].accumulatedText \o chunk)
             IN Delta(Head(flights[i].script).arg)
    /\ clock' = clock + 1
    /\ UNCHANGED <<input, isProcessing, currentStatus, isVisible, isSettingsOpen,
                   executionErrorLog, sessionIdRef, lastLoadedSessionId, rendered, loads,
                   triggers, edits>>
    /\ UNCHANGED <<settings, workflow, canvas, issues, visualizerTab, response, idleVars>>

\* The status callback handleSendMessage passes, called by the adapter.
handleSendMessage_onStatus ==
    /\ \E i \in 1..Len(flights) :
          /\ flights[i].open
          /\ flights[i].script # <<>>
          /\ Head(flights[i].script).cb = "onStatus"
          /\ currentStatus' = Head(flights[i].script).arg
          /\ flights' = [flights EXCEPT ![i].script = Tail(@)]
    /\ clock' = clock + 1
    /\ UNCHANGED <<messages, input, isProcessing, isVisible, isSettingsOpen,
                   executionErrorLog, sessionIdRef, lastLoadedSessionId, rendered, loads,
                   triggers, edits>>
    /\ UNCHANGED <<settings, workflow, canvas, issues, visualizerTab, response, idleVars>>

\* A handler that leaves the turn open: it has no finally block.
FinallySkipped == UNCHANGED <<isProcessing, currentStatus>>

\* A finally block that ends the turn and leaves the status pill as it is.
FinallyKeepingStatus ==
    /\ isProcessing' = FALSE
    /\ UNCHANGED currentStatus

\* The finally block of handleSendMessage.
Finally ==
    /\ isProcessing' = FALSE
    /\ currentStatus' = Null

\* handleSendMessage from the return of sendMessageToComfyAgent, which has
\* parsed the text of the adapter or caught its error, to the end of the
\* finally block, when nothing in the try block of the handler throws.
handleSendMessage_Settled ==
    /\ \E i \in 1..Len(flights) :
          /\ flights[i].open
          /\ flights[i].script = <<>>
          /\ LET Then(resp) ==
                     /\ response' = resp
                     /\ IF Applies(resp)
                        THEN /\ workflow' = resp.updatedWorkflow
                             /\ canvas' = resp.updatedWorkflow
                        ELSE UNCHANGED <<workflow, canvas>>
                     /\ IF Reports(resp)
                        THEN /\ issues' = resp.issues.v
                             /\ visualizerTab' = "analysis"
                        ELSE UNCHANGED <<issues, visualizerTab>>
                     /\ messages' = Finalized(messages, flights[i].aiMsgId, resp, settings)
             IN Then(IF flights[i].fails THEN CaughtResponse(flights[i].error)
                     ELSE ParseResponse(flights[i].accumulatedText, [k \in 1..MaxIssues |-> clock]))
          /\ executionErrorLog' = IF flights[i].fix THEN Null ELSE executionErrorLog
          /\ flights' = [flights EXCEPT ![i].open = FALSE]
    /\ Finally
    /\ clock' = clock + 1
    /\ UNCHANGED <<input, isVisible, isSettingsOpen, sessionIdRef, lastLoadedSessionId,
                   rendered, loads, triggers, edits>>
    /\ UNCHANGED <<settings, idleVars>>

\* The message of the error app.loadGraphData throws for a graph it does not
\* take.
LoadError == <<"b", "a", "d", " ", "g", "r", "a", "p", "h">>

\* handleSendMessage from the return of sendMessageToComfyAgent when
\* applyToCanvas throws (app.loadGraphData belongs to the host page and may
\* refuse the graph): setWorkflow has been called, the catch block adds a
\* system message and drops the AI message if it is empty, and the finally
\* block ends the turn.
handleSendMessage_Caught ==
    /\ \E i \in 1..Len(flights) :
          /\ flights[i].open
          /\ flights[i].script = <<>>
          /\ ~flights[i].fails
          /\ LET errorMsg == ChatMessage(DecimalOf(clock + 2), <<"s", "y", "s", "t", "e", "m">>,
                                         <<"E", "r", "r", "o", "r", ":", " ">> \o LoadError, clock, <<>>)
                 Refused(resp) ==
                     /\ Applies(resp)
                     /\ response' = resp
                     /\ workflow' = resp.updatedWorkflow
                     /\ messages' = SelectSeq(Append(messages, errorMsg),
                                              LAMBDA m : m.id # flights[i].aiMsgId \/ Len(m.text) > 0)
             IN Refused(ParseResponse(flights[i].accumulatedText, [k \in 1..MaxIssues |-> clock]))
          /\ flights' = [flights EXCEPT ![i].open = FALSE]
    /\ Finally
    /\ clock' = clock + 3
    /\ UNCHANGED <<input, isVisible, isSettingsOpen, executionErrorLog, sessionIdRef,
                   lastLoadedSessionId, rendered, loads, triggers, edits>>
    /\ UNCHANGED <<settings, canvas, issues, visualizerTab, idleVars>>

\* A render of the updates made outside the handlers of the page's events.
Render ==
    /\ rendered # View(messages, isProcessing, workflow, issues, input, isVisible, sessionIdRef)
    /\ Rerender(rendered, messages, isProcessing, workflow, issues, input, isVisible,
                sessionIdRef, lastLoadedSessionId, loads)
    /\ UNCHANGED <<messages, input, isProcessing, currentStatus, isVisible, isSettingsOpen,
                   executionErrorLog, lastLoadedSessionId, flights, clock, triggers, edits>>
    /\ UNCHANGED <<settings, workflow, canvas, issues, visualizerTab, response, idleVars>>

\* loadHistory after `await fetchChatHistory(...)`.
loadHistory_Arrived ==
    /\ \E i \in 1..Len(loads), rawHistory \in ServedHistories :
          /\ messages' = IF rawHistory = <<>> THEN messages
                         ELSE Merged(messages, HistoryMessages(rawHistory, clock))
          /\ lastLoadedSessionId' = loads[i]
          /\ loads' = SubSeq(loads, 1, i - 1) \o SubSeq(loads, i + 1, Len(loads))
    /\ UNCHANGED <<input, isProcessing, currentStatus, isVisible, isSettingsOpen,
                   executionErrorLog, sessionIdRef, rendered, flights, clock, triggers, edits>>
    /\ UNCHANGED <<settings, workflow, canvas, issues, visualizerTab, response, idleVars>>

\* The panel, closed so far, is opened: setIsVisible(true), the render, the effect that
\* calls syncFromCanvas and the effect that loads the history, in the order
\* of their declaration, and the render of the workflow that was set.
Show ==
    /\ ~isVisible
    /\ edits < MaxEdits
    /\ edits' = edits + 1
    /\ isVisible' = TRUE
    /\ workflow' = canvas
    /\ LET Synced(first, ref) ==
               IF LoadStarts(rendered, first, lastLoadedSessionId)
               THEN /\ Len(loads) < MaxLoads
                    /\ Rerender(first, messages, isProcessing, canvas, issues, input, TRUE,
                                first.activeSessionId, lastLoadedSessionId,
                                Append(loads, first.activeSessionId))
               ELSE Rerender(first, messages, isProcessing, canvas, issues, input, TRUE,
                             ref, lastLoadedSessionId, loads)
       IN Synced(View(messages, isProcessing, workflow, issues, input, TRUE, sessionIdRef),
                 OrElse(getWorkflowId(canvas), sessionIdRef))
    /\ UNCHANGED <<messages, input, isProcessing, currentStatus, isSettingsOpen,
                   executionErrorLog, lastLoadedSessionId, flights, clock, triggers>>
    /\ UNCHANGED <<settings, canvas, issues, visualizerTab, response, idleVars>>

\* The panel is closed: setIsVisible(false).  App renders nothing while it
\* is closed, so the steps of the user in the panel need it open.
Hide ==
    /\ isVisible
    /\ edits < MaxEdits
    /\ edits' = edits + 1
    /\ isVisible' = FALSE
    /\ Rerender(rendered, messages, isProcessing, workflow, issues, input, FALSE,
                sessionIdRef, lastLoadedSessionId, loads)
    /\ UNCHANGED <<messages, input, isProcessing, currentStatus, isSettingsOpen,
                   executionErrorLog, lastLoadedSessionId, flights, clock, triggers>>
    /\ UNCHANGED <<settings, workflow, canvas, issues, visualizerTab, response, idleVars>>

\* The user loads another graph on the canvas of the host application.
CanvasEdited ==
    /\ edits < MaxEdits
    /\ edits' = edits + 1
    /\ \E graph \in Graphs : graph # canvas /\ canvas' = graph
    /\ UNCHANGED <<messages, input, isProcessing, currentStatus, isVisible, isSettingsOpen,
                   executionErrorLog, sessionIdRef, lastLoadedSessionId, rendered, flights,
                   loads, clock, triggers>>
    /\ UNCHANGED <<settings, workflow, issues, visualizerTab, response, idleVars>>

\* handleManualUpdateWorkflow(newWorkflow), called by the visualizer.
handleManualUpdateWorkflow ==
    /\ isVisible
    /\ edits < MaxEdits
    /\ edits' = edits + 1
    /\ \E newWorkflow \in Graphs :
          /\ workflow' = newWorkflow
          /\ canvas' = newWorkflow
          /\ Rerender(rendered, messages, isProcessing, newWorkflow, issues, input, isVisible,
                      sessionIdRef, lastLoadedSessionId, loads)
    /\ UNCHANGED <<messages, input, isProcessing, currentStatus, isVisible, isSettingsOpen,
                   executionErrorLog, lastLoadedSessionId, flights, clock, triggers>>
    /\ UNCHANGED <<settings, issues, visualizerTab, response, idleVars>>

TemplateNext == Resolve

\* A call of resolveTemplate on its own: no adapter call is under way.
InitTemplate == TemplateInit /\ AdapterIdle /\ ExtractIdle /\ SessionIdle

SpecTemplate == InitTemplate /\ [][TemplateNext]_allVars

Next ==
    \/ callCustomLLM_Start
    \/ callCustomLLM_Response
    \/ callCustomLLM_ErrorText
    \/ callCustomLLM_Json
    \/ callGoogleGemini_Start
    \/ callGoogleGemini_Open
    \/ callGoogleGemini_Chunk
    \/ callGoogleGemini_End
    \/ callPythonBackendStream_Start
    \/ callPythonBackendStream_Response
    \/ callPythonBackendStream_Read
    \/ callPythonBackendStream_Done
    \/ TransportFails

\* An adapter call, the template resolution of callCustomLLM being part of
\* callCustomLLM_Start.
Init == AdapterInit /\ TemplateIdle /\ ExtractIdle /\ SessionIdle

ExtractNext ==
    \/ sendMessageToComfyAgent_Parse
    \/ handleSendMessage_Response

InitExtract == ExtractInit /\ TemplateIdle /\ AdapterIdle /\ SessionIdle

SpecExtract == InitExtract /\ [][ExtractNext]_allVars

Spec == Init /\ [][Next]_allVars

SessionNext ==
    \/ onSend
    \/ handleActionClick
    \/ handleFixError
    \/ setInput
    \/ handleSendMessage_onStream
    \/ handleSendMessage_onStatus
    \/ handleSendMessage_Settled
    \/ handleSendMessage_Caught
    \/ Render
    \/ loadHistory_Arrived
    \/ Show
    \/ Hide
    \/ CanvasEdited
    \/ handleManualUpdateWorkflow

\* A session of App: the adapters and the parsing logic take part through
\* what they make of a call.
InitSession == SessionInit /\ TemplateIdle /\ CallIdle

SpecSession == InitSession /\ [][SessionNext]_allVars

\* What enables the steps that the scheduling of the page makes sooner or
\* later: a callback the adapter is to make, the return of a call whose
\* callbacks are made, a render that is due, a history load that is pending.
Streaming == \E i \in InFlight : flights[i].script # <<>> /\ Head(flights[i].script).cb = "onStream"
Reporting == \E i \in InFlight : flights[i].script # <<>> /\ Head(flights[i].script).cb = "onStatus"
Settling == \E i \in InFlight : flights[i].script = <<>>
RenderDue ==
    LET Due(new) ==
            /\ rendered # new
            /\ LoadStarts(rendered, new, lastLoadedSessionId) => Len(loads) < MaxLoads
    IN Due(View(messages, isProcessing, workflow, issues, input, isVisible, sessionIdRef))
Loading == loads # <<>>

\* The turns of a session whose panel stays open and whose canvas is left
\* alone: the adapter's call settles, that is, each callback the adapter is
\* to make is made, the call returns and the handler runs on from its await,
\* pending renders are made and pending history loads arrive.  Each
\* fairness conjunct is the weak fairness of the step, WF_allVars(step),
\* written with the condition that enables the step.
TurnNext ==
    \/ onSend
    \/ handleActionClick
    \/ handleFixError
    \/ setInput
    \/ handleSendMessage_onStream
    \/ handleSendMessage_onStatus
    \/ handleSendMessage_Settled
    \/ handleSendMessage_Caught
    \/ Render
    \/ loadHistory_Arrived

InitTurn == TurnInit /\ TemplateIdle /\ CallIdle

SpecTurn ==
    /\ InitTurn /\ [][TurnNext]_allVars
    /\ ([]<>~Streaming) \/ ([]<><<handleSendMessage_onStream>>_allVars)
    /\ ([]<>~Reporting) \/ ([]<><<handleSendMessage_onStatus>>_allVars)
    /\ ([]<>~Settling) \/ ([]<><<handleSendMessage_Settled \/ handleSendMessage_Caught>>_allVars)
    /\ ([]<>~RenderDue) \/ ([]<><<Render>>_allVars)
    /\ ([]<>~Loading) \/ ([]<><<loadHistory_Arrived>>_allVars)

(***************************************************************************)
(* Properties of the adapters                                              *)
(***************************************************************************)
Adapter == SelectedAdapter(settings)

\* The call of callCustomLLM has got past the base address check.
CustomUnderWay == Adapter = "custom" /\ settings.baseUrl # <<>> /\ pc # "start"

HeadersParse == JSONparse(headersStr(settings, prompt)).ok
BodyParses == JSONparse(bodyStr(settings, prompt)).ok

\* C5: in callCustomLLM, resolved headers or a resolved body that do not parse
\* as JSON make the call fail with no request issued, and the error of a
\* header failure differs from the error of a body failure.
C5_TemplatesParse ==
    CustomUnderWay =>
        IF ~HeadersParse
        THEN pc = "threw" /\ net = <<>> /\ err.msg = "Invalid Headers Configuration"
        ELSE ~BodyParses =>
                pc = "threw" /\ net = <<>> /\ err.msg = "Invalid Body Template JSON"

C5_BodyRejected ==
    /\ CustomUnderWay /\ HeadersParse /\ ~BodyParses
    /\ pc = "threw" /\ net = <<>> /\ err.msg = "Invalid Body Template JSON"

\* The configuration the selected adapter needs is missing.
ConfigurationMissing ==
    CASE Adapter = "custom" -> settings.baseUrl = <<>>
      [] Adapter = "google" -> settings.apiKey = <<>> /\ settings.envApiKey = <<>>
      [] Adapter = "python" -> settings.pythonBackendUrl = <<>>

\* C6: an adapter whose required configuration is missing (custom: base
\* address; cloud: API key in settings and in the environment; orchestration:
\* remote address) fails with an error, and makes no request or SDK call.
C6_MissingConfiguration ==
    ConfigurationMissing /\ pc # "start" =>
        pc = "threw" /\ err # NoError /\ net = <<>>

C6_CloudKeyMissing ==
    /\ Adapter = "google" /\ ConfigurationMissing
    /\ pc = "threw" /\ err # NoError /\ net = <<>>

\* The response body callCustomLLM has parsed, once it has returned.
ResponseBody == JSONparse(received[1]).val

CustomReturned == Adapter = "custom" /\ pc = "returned"

\* The four recognized shapes of a response body.
FirstChoice(data) ==
    IF Throws(Get(data, <<"c", "h", "o", "i", "c", "e", "s">>)) THEN Undefined ELSE First(Get(data, <<"c", "h", "o", "i", "c", "e", "s">>))
MessageContent(data) == OptGet(OptGet(FirstChoice(data), <<"m", "e", "s", "s", "a", "g", "e">>), <<"c", "o", "n", "t", "e", "n", "t">>)
ChoiceText(data) == OptGet(FirstChoice(data), <<"t", "e", "x", "t">>)
FlatContent(data) == Get(data, <<"c", "o", "n", "t", "e", "n", "t">>)
FlatResponse(data) == Get(data, <<"r", "e", "s", "p", "o", "n", "s", "e">>)

\* C7: callCustomLLM takes the reply text in strict priority order:
\* choices[0].message.content or choices[0].text if one yields text, else the
\* flat content field if it yields text, else the flat response field.
C7_PriorityOrder ==
    CustomReturned =>
        IF Truthy(MessageContent(ResponseBody))
        THEN ret.text = String(MessageContent(ResponseBody))
        ELSE IF Truthy(ChoiceText(ResponseBody))
        THEN ret.text = String(ChoiceText(ResponseBody))
        ELSE IF Truthy(FlatContent(ResponseBody))
        THEN ret.text = String(FlatContent(ResponseBody))
        ELSE IF Truthy(FlatResponse(ResponseBody))
        THEN ret.text = String(FlatResponse(ResponseBody))
        ELSE TRUE

NoShapeYields(data) ==
    /\ ~Truthy(MessageContent(data))
    /\ ~Truthy(ChoiceText(data))
    /\ ~Truthy(FlatContent(data))
    /\ ~Truthy(FlatResponse(data))

\* C8: the text callCustomLLM returns is never empty, and when no recognized
\* shape yields text (a recognized field that is present but empty included)
\* it is the serialized response body.
C8_NeverEmpty ==
    CustomReturned =>
        /\ ret.text # <<>>
        /\ NoShapeYields(ResponseBody) => ret.text = stringify(ResponseBody)

C8_EmptyFieldFallsBack ==
    /\ CustomReturned
    /\ FlatContent(ResponseBody) = Str(<<>>)
    /\ NoShapeYields(ResponseBody)
    /\ ret.text = stringify(ResponseBody)

\* C9: a successful callCustomLLM with a delta callback calls it exactly
\* once, after the response is received, with the returned text; a failing
\* call never calls it.
C9_SingleDelivery ==
    Adapter = "custom" =>
        /\ pc = "returned" /\ onStream => deltas = <<ret.text>> /\ received # <<>>
        /\ pc # "returned" \/ ~onStream => deltas = <<>>

C9_DeliveredOnce ==
    CustomReturned /\ onStream /\ deltas = <<ret.text>> /\ received # <<>>

\* C10: with a delta callback, the text an adapter has accumulated is at
\* every moment the concatenation of the fragments delivered so far (each
\* call carries the new fragment only), and the text a successful call
\* returns is the concatenation of all of them.
C10_UniformStreaming ==
    onStream =>
        /\ pc = "returned" => ret.text = Flatten(deltas)
        /\ Adapter \in {"google", "python"} => fullText = Flatten(deltas)

C10_StreamedInFragments ==
    /\ Adapter = "python" /\ pc = "returned" /\ onStream
    /\ Len(deltas) >= 2
    /\ ret.text = Flatten(deltas)

\* The citations of a list that are the first of their uri, in order.
FirstSeen(all) ==
    SelectSeq([i \in 1..Len(all) |-> [at |-> i, src |-> all[i]]],
              LAMBDA e : \A j \in 1..(e.at - 1) : all[j].uri # e.src.uri)

FirstSeenSources(all) == [i \in 1..Len(FirstSeen(all)) |-> FirstSeen(all)[i].src]

\* C11: the sources callGoogleGemini returns hold one entry per uri, with the
\* title of the first citation of that uri, in the order in which the uris
\* first appear in the stream.
C11_FirstSeenSources ==
    Adapter = "google" /\ pc = "returned" =>
        ret.sources = FirstSeenSources(allSources)

\* What callPythonBackendStream does with a stream that one read delivers
\* whole.
SingleRead(text) ==
    ProcessLines(Progress(<<>>, <<>>, <<>>, <<>>), Complete(split(text)), onStream, onStatus)

PythonReturned == Adapter = "python" /\ pc = "returned"

\* C12: however the event stream is cut into reads, callPythonBackendStream
\* makes the status and delta calls, with the arguments, and returns the
\* text that it makes and returns when one read delivers the stream whole;
\* while it reads, the calls made are those of the lines received whole.
C12_SplitInvariance ==
    Adapter = "python" /\ pc \in {"python_read", "returned"} =>
        LET Same(whole) ==
                /\ deltas = whole.deltas
                /\ statuses = whole.statuses
                /\ calls = whole.calls
                /\ fullText = whole.fullText
                /\ pc = "returned" => ret.text = whole.fullText
        IN Same(SingleRead(Flatten(received)))

\* A read has ended inside the `data: ` prefix of a line, after a line of
\* an earlier read was dispatched.
C12_SplitInsideLine ==
    /\ Adapter = "python" /\ pc = "python_read"
    /\ buffer # <<>> /\ Len(buffer) < Len(DataPrefix)
    /\ inbox # <<>> /\ Head(inbox) # "\n"
    /\ deltas # <<>>

\* The text after the prefix of a data line.
DataOf(line) == trim(RemoveFirst(line, DataPrefix))

IsDataLine(line) == startsWith(trim(line), DataPrefix)

\* A data line whose payload is not JSON.
Malformed(line) ==
    IsDataLine(line) /\ DataOf(line) # DoneMarker /\ ~JSONparse(DataOf(line)).ok

\* The lines of the stream that callPythonBackendStream has received whole.
LinesReceived == Complete(split(Flatten(received)))

\* C13: a data line whose payload is not valid JSON is skipped: the call
\* returns, with the calls and the text of the stream without that line, so
\* the events before and after it are dispatched.
C13_MalformedSkipped ==
    PythonReturned =>
        LET Same(rest) ==
                /\ deltas = rest.deltas
                /\ statuses = rest.statuses
                /\ calls = rest.calls
                /\ ret = [text |-> rest.fullText, sources |-> <<>>]
                /\ err = NoError
        IN Same(ProcessLines(Progress(<<>>, <<>>, <<>>, <<>>),
                             SelectSeq(LinesReceived, LAMBDA l : ~Malformed(l)),
                             onStream, onStatus))

\* A call has returned from a stream with a malformed line between an event
\* that made a status call and one that made a delta call.
C13_EventsAroundMalformed ==
    /\ PythonReturned
    /\ \E i \in 2..(Len(LinesReceived) - 1) :
          /\ Malformed(LinesReceived[i])
          /\ ProcessLines(Progress(<<>>, <<>>, <<>>, <<>>), SubSeq(LinesReceived, 1, i - 1),
                          onStream, onStatus).statuses # <<>>
          /\ Len(deltas) > Len(ProcessLines(Progress(<<>>, <<>>, <<>>, <<>>), SubSeq(LinesReceived, 1, i),
                                            onStream, onStatus).deltas)

\* A line that begins with the data prefix.
BeginsWithPrefix(line) == startsWith(line, DataPrefix)

\* The event of a line that begins with the prefix is a content event: it
\* is JSON, no status call takes it, and its type is `content` or it has
\* a chunk.
IsContentEvent(line) ==
    /\ BeginsWithPrefix(line)
    /\ DataOf(line) # DoneMarker
    /\ LET Content(parsed) ==
               /\ parsed.ok /\ ~Throws(parsed.val)
               /\ LET Of(type, chunk) ==
                          /\ ~(onStatus /\ type \in {Str(<<"s", "t", "a", "t", "u", "s", "_", "u", "p", "d", "a", "t", "e">>),
                                                      Str(<<"m", "e", "t", "a", "_", "u", "p", "d", "a", "t", "e">>)})
                          /\ type = Str(<<"c", "o", "n", "t", "e", "n", "t">>) \/ Truthy(chunk)
                  IN Of(Get(parsed.val, <<"t", "y", "p", "e">>), Get(parsed.val, <<"c", "h", "u", "n", "k">>))
       IN Content(JSONparse(DataOf(line)))

\* The chunk of a content event, as text.
ChunkOf(line) ==
    String(OrElse(Get(JSONparse(DataOf(line)).val, <<"c", "h", "u", "n", "k">>), Str(<<>>)))

ContentChunks(lines) ==
    LET events == SelectSeq(lines, IsContentEvent)
    IN [i \in 1..Len(events) |-> ChunkOf(events[i])]

\* C14: callPythonBackendStream calls the delta callback once for each
\* content event, with its chunk, and returns the concatenation of the
\* chunks; the [DONE] line and the lines that do not begin with `data: `
\* cause no call and no error.
C14_ContentDeltas ==
    PythonReturned =>
        /\ onStream => deltas = ContentChunks(LinesReceived)
        /\ ret.text = Flatten(ContentChunks(LinesReceived))
        /\ statuses = ProcessLines(Progress(<<>>, <<>>, <<>>, <<>>),
                                   SelectSeq(LinesReceived, BeginsWithPrefix),
                                   onStream, onStatus).statuses
        /\ err = NoError

StatusUpdate == Str(<<"s", "t", "a", "t", "u", "s", "_", "u", "p", "d", "a", "t", "e">>)
MetaUpdate == Str(<<"m", "e", "t", "a", "_", "u", "p", "d", "a", "t", "e">>)

\* The events of the data lines received: the payloads that are JSON objects.
EventsReceived ==
    LET parsed == [i \in 1..Len(LinesReceived) |->
                      IF IsDataLine(LinesReceived[i]) /\ DataOf(LinesReceived[i]) # DoneMarker
                      THEN JSONparse(DataOf(LinesReceived[i])) ELSE Fail]
        events == SelectSeq(parsed, LAMBDA e : e.ok /\ ~Throws(e.val))
    IN [i \in 1..Len(events) |-> events[i].val]

\* The status call the event of a status_update or meta_update is to cause:
\* the node, the display text and the status of the event, the last two
\* replaced by a generic text and by `processing` when the event has none,
\* and for a meta_update the step data.
StatusCallOf(event) ==
    LET meta == Get(event, <<"m", "e", "t", "a", "d", "a", "t", "a">>)
        isMeta == Get(event, <<"t", "y", "p", "e">>) = MetaUpdate
    IN AgentStatus(OptGet(meta, <<"n", "o", "d", "e">>),
                   OrElse(OptGet(meta, <<"d", "i", "s", "p", "l", "a", "y", "_", "t", "e", "x", "t">>),
                          IF isMeta
                          THEN Str(<<"P", "r", "o", "c", "e", "s", "s", "i", "n", "g", " ", "f", "o", "u", "n", "d", " ", "d", "a", "t", "a", ".", ".", ".">>)
                          ELSE Str(<<"P", "r", "o", "c", "e", "s", "s", "i", "n", "g", ".", ".", ".">>)),
                   OrElse(OptGet(meta, <<"s", "t", "a", "t", "u", "s">>),
                          Str(<<"p", "r", "o", "c", "e", "s", "s", "i", "n", "g">>)),
                   IF isMeta THEN OptGet(meta, <<"s", "t", "e", "p", "_", "d", "a", "t", "a">>) ELSE Undefined)

StatusCalls(events) ==
    LET updates == SelectSeq(events, LAMBDA e : Get(e, <<"t", "y", "p", "e">>) \in {StatusUpdate, MetaUpdate})
    IN [i \in 1..Len(updates) |-> StatusCallOf(updates[i])]

\* C15: with a status callback, callPythonBackendStream makes one status
\* call for each status_update and each meta_update event and none for any
\* other event; the call carries the node of the event, its display text
\* and its status (a generic text and `processing` when the event has
\* none), and for a meta_update its step data.
C15_StatusCalls ==
    PythonReturned /\ onStatus =>
        /\ statuses = StatusCalls(EventsReceived)
        /\ err = NoError

\* The invocations a line causes when it is dispatched by itself.
CallsOfLine(line) ==
    ProcessLine(Progress(<<>>, <<>>, <<>>, <<>>), line, onStream, onStatus).calls

RECURSIVE CallsInArrivalOrder(_)
CallsInArrivalOrder(lines) ==
    IF lines = <<>> THEN <<>>
    ELSE CallsOfLine(Head(lines)) \o CallsInArrivalOrder(Tail(lines))

\* The delta calls of the chunks of a cloud SDK stream, in arrival order.
ChunkCalls(texts) ==
    LET spoken == SelectSeq(texts, LAMBDA t : t # <<>>)
    IN [i \in 1..Len(spoken) |-> Call("onStream", spoken[i])]

IsPrefix(s, t) == Len(s) <= Len(t) /\ SubSeq(t, 1, Len(s)) = s

CallsAsReceived ==
    /\ Adapter = "python" => calls = CallsInArrivalOrder(LinesReceived)
    /\ Adapter = "google" /\ onStream => calls = ChunkCalls(received)
    /\ ~onStream => \A i \in 1..Len(calls) : calls[i].cb = "onStatus"
    /\ ~onStatus => \A i \in 1..Len(calls) : calls[i].cb = "onStream"

\* C16: within an adapter call the callbacks, status and delta alike, are
\* invoked in the order in which their events or chunks were received, and
\* a read adds its invocations after those of the reads before it.
C16_ArrivalOrder ==
    []CallsAsReceived /\ [][IsPrefix(calls, calls')]_allVars

\* A status call and a delta call of a later event follow each other in a
\* stream that has more to deliver.
C16_Interleaved ==
    /\ Adapter = "python"
    /\ inbox # <<>>
    /\ \E i \in 1..(Len(calls) - 1) : calls[i].cb = "onStatus" /\ calls[i + 1].cb = "onStream"

\* The lines of the response, the last one with or without a line end.
LinesOfResponse == split(Flatten(received))

\* C30: when callPythonBackendStream returns, each data line of the response
\* has been dispatched once, in order, also a last data line that no line
\* end follows: the calls made and the text returned are those of all the
\* lines of the response, and the line buffer holds no data line.
C30_NothingLeftBehind ==
    PythonReturned =>
        /\ calls = CallsInArrivalOrder(LinesOfResponse)
        /\ ret.text = ProcessLines(Progress(<<>>, <<>>, <<>>, <<>>), LinesOfResponse,
                                   onStream, onStatus).fullText
        /\ ~IsDataLine(buffer)

\* C31: the text callPythonBackendStream returns and the arguments of its
\* delta calls are the same with a status callback and without one: they are
\* those of the call that is given the status callback the other way round,
\* so a status_update or meta_update event, also one with a chunk, adds
\* nothing to the text and causes no delta call.
C31_StatusIndependent ==
    PythonReturned =>
        LET Same(other) ==
                /\ ret.text = other.fullText
                /\ deltas = other.deltas
        IN Same(ProcessLines(Progress(<<>>, <<>>, <<>>, <<>>), LinesReceived, onStream, ~onStatus))

\* The adapter a position of the call lies in.
AdapterAt(position) ==
    CASE position \in {"custom_fetch", "custom_text", "custom_json"} -> "custom"
      [] position \in {"gemini_open", "gemini_next"} -> "google"
      [] position \in {"python_fetch", "python_read"} -> "python"
      [] OTHER -> "none"

\* The adapter a request is made by.
AdapterOfRequest(request) ==
    IF request.kind = "sdk" THEN "google"
    ELSE IF request.url = StripSlash(settings.pythonBackendUrl) \o <<"/", "a", "p", "i", "/", "c", "h", "a", "t", "/", "s", "t", "r", "e", "a", "m">>
    THEN "python"
    ELSE "custom"

\* The adapter the settings call for.
AdapterCalledFor ==
    IF settings.usePythonBackend THEN "python"
    ELSE IF settings.provider = "google" THEN "google"
    ELSE "custom"

\* C22: a call of sendMessageToComfyAgent runs one adapter, the one the
\* settings call for (the orchestration adapter when usePythonBackend is
\* set, whatever the provider; else the cloud SDK adapter for the provider
\* google; else the custom adapter): the call is never inside another
\* adapter, it makes at most one request, that adapter's, and a failure is
\* followed by no other adapter.
C22_OneAdapter ==
    /\ [](/\ AdapterAt(pc) \in {"none", AdapterCalledFor}
          /\ Len(net) <= 1
          /\ \A i \in 1..Len(net) : AdapterOfRequest(net[i]) = AdapterCalledFor)
    /\ [][pc = "threw" => pc' = "threw" /\ net' = net]_allVars

\* The orchestration adapter has failed in a call whose settings name the
\* custom provider and are complete for it, and the request made is the
\* only one.
C22_NoFallback ==
    /\ settings.usePythonBackend /\ settings.provider = "custom"
    /\ settings.baseUrl # <<>>
    /\ pc = "threw"
    /\ Len(net) = 1 /\ AdapterOfRequest(net[1]) = "python"

(***************************************************************************)
(* Properties of a session                                                 *)
(***************************************************************************)
\* C23: at most one call of sendMessageToComfyAgent is in flight at any
\* time; a send triggered while one is in flight (by the send button or the
\* Enter key, a click on an action or a question, the fix button), however
\* the triggers, the renders and the callbacks of the stream follow each
\* other, is rejected: it adds no message and starts no call.
C23_OneInFlight ==
    /\ [](/\ Cardinality(InFlight) <= 1
          /\ \A k \in 1..Len(triggers) : triggers[k].underWay => triggers[k].outcome = "rejected")
    /\ [][(triggers' # triggers /\ InFlight # {}) => (messages' = messages /\ flights' = flights)]_allVars

\* A trigger with a text to send was rejected while the call of the turn
\* before it had delivered a fragment that no render had shown yet.
C23_RejectedWhileStreaming ==
    /\ triggers # <<>>
    /\ triggers[Len(triggers)].underWay
    /\ triggers[Len(triggers)].outcome = "rejected"
    /\ \E i \in InFlight : flights[i].delivered # <<>> /\ flights[i].script # <<>>
    /\ rendered.messages # messages

\* C24: the promotion of the session id is one-way: once the workflow of
\* the panel carries an id (workflow.id, else extra.workspace_info.id, else
\* extra.id), no later step computes the random token as the active session
\* id, starts a call with it or loads the history for it, also when the
\* later workflow carries no id.
C24_NeverReverted ==
    [][Truthy(getWorkflowId(rendered.workflow)) =>
          /\ rendered'.activeSessionId # RandomToken
          /\ Len(flights') > Len(flights) => flights'[Len(flights')].sessionId # RandomToken
          /\ Len(loads') > Len(loads) => loads'[Len(loads')] # RandomToken]_allVars

\* C25: when the transport of a call fails after fragments were delivered
\* to the delta callback, the text delivered stays in the AI message of the
\* turn: after the failure the text of the message is still the
\* concatenation of the fragments delivered.
C25_DeliveredTextKept ==
    \A i \in 1..Len(flights) :
        (~flights[i].open /\ flights[i].fails /\ flights[i].delivered # <<>>) =>
            \E k \in 1..Len(messages) :
                /\ messages[k].id = flights[i].aiMsgId
                /\ messages[k].text = Flatten(flights[i].delivered)

\* C26: when the call of a turn fails, the turn ends with the error shown
\* in the AI message of the turn and the state before it kept: the messages
\* that existed before the turn stay as they were, the steps of the call
\* leave the workflow, the canvas, the issues and every other message as
\* they are, and what is shown for the failure differs from what is shown
\* for every call that succeeded, also for one whose reply reads as the
\* error and in which nothing else was found.
C26_FailureKeepsState ==
    /\ [](\A i \in 1..Len(flights) : flights[i].fails =>
            /\ \A m \in 1..Len(flights[i].before.messages) :
                  \E k \in 1..Len(messages) : messages[k] = flights[i].before.messages[m]
            /\ ~flights[i].open =>
                  /\ \E k \in 1..Len(messages) :
                        /\ messages[k].id = flights[i].aiMsgId
                        /\ messages[k].text = i18nText("errorPrefix") \o <<" ">> \o flights[i].error
                  /\ \A j \in 1..Len(flights) : (~flights[j].open /\ ~flights[j].fails) =>
                        \A k, n \in 1..Len(messages) :
                            (messages[k].id = flights[i].aiMsgId /\ messages[n].id = flights[j].aiMsgId) =>
                                <<messages[k].text, messages[k].metadata>> # <<messages[n].text, messages[n].metadata>>)
    /\ [][\A i \in 1..Len(flights) : (flights[i].fails /\ flights'[i] # flights[i]) =>
            /\ workflow' = workflow /\ canvas' = canvas /\ issues' = issues
            /\ Len(messages') = Len(messages)
            /\ \A k \in 1..Len(messages) :
                  messages[k].id # flights[i].aiMsgId => messages'[k] = messages[k]]_allVars

\* A call failed before anything was received, and the reply of another call
\* of the session read as its error: the texts shown for the two are the
\* same.
C26_FailedBesideErrorLikeReply ==
    \E i, j \in 1..Len(flights) :
        /\ ~flights[i].open /\ flights[i].fails
        /\ ~flights[j].open /\ ~flights[j].fails
        /\ flights[i].before.messages # <<>>
        /\ \E k, n \in 1..Len(messages) :
              /\ messages[k].id = flights[i].aiMsgId
              /\ messages[n].id = flights[j].aiMsgId
              /\ messages[k].text = messages[n].text

\* C27: during a turn the list holds exactly one AI message of the turn,
\* the placeholder made at the send; after the k-th call of the delta
\* callback its text is the concatenation of the first k fragments and its
\* thinking flag is false; a delta adds no message and leaves every other
\* message as it is.
C27_OneGrowingMessage ==
    /\ [](\A i \in InFlight :
            /\ Cardinality({k \in 1..Len(messages) : messages[k].id = flights[i].aiMsgId}) = 1
            /\ \A k \in 1..Len(messages) : messages[k].id = flights[i].aiMsgId =>
                  /\ messages[k].sender = <<"a", "i">>
                  /\ messages[k].text = Flatten(flights[i].delivered)
                  /\ messages[k].metadata.thinking =
                         Bool(IF flights[i].delivered = <<>> THEN TrueText ELSE FalseText))
    /\ [][\A i \in InFlight : flights'[i].delivered # flights[i].delivered =>
            /\ Len(flights'[i].delivered) = Len(flights[i].delivered) + 1
            /\ Len(messages') = Len(messages)
            /\ \A k \in 1..Len(messages) :
                  messages[k].id # flights[i].aiMsgId => messages'[k] = messages[k]]_allVars

\* The second fragment of a turn has been delivered beside the messages of
\* an earlier turn.
C27_SecondFragmentDelivered ==
    \E i \in InFlight :
        /\ Len(flights[i].delivered) = 2
        /\ Len(messages) > 3
        /\ \E k \in 1..Len(messages) :
              /\ messages[k].id = flights[i].aiMsgId
              /\ messages[k].text = flights[i].delivered[1] \o flights[i].delivered[2]

\* C28: what the selected adapter transmits for a send holds the recent
\* history, the (at most five) most recent messages before the send, each as
\* `sender: text`, together with the prompt, the error log and the session
\* id.
C28_CarriesHistory ==
    \A i \in 1..Len(flights) :
        /\ \A h \in 1..Len(flights[i].historyText) :
              Contains(flights[i].outbound.text, flights[i].historyText[h])
        /\ Contains(flights[i].outbound.text, flights[i].textToSend)
        /\ Contains(flights[i].outbound.text, flights[i].errorLog)
        /\ Contains(flights[i].outbound.text, String(flights[i].sessionId))

\* C35: every send that is accepted ends, provided the call of the adapter
\* settles: isProcessing is false and currentStatus null again, whether the
\* call succeeded, failed, or applying its response threw, and a render
\* shows it, so that a later send is not rejected for it.
C35_TurnEnds ==
    /\ isProcessing ~> (~isProcessing /\ currentStatus = Null)
    /\ isProcessing ~> ~rendered.isProcessing

\* A turn ended by the catch block of the handler: applyToCanvas threw after
\* setWorkflow, the turn is over and the panel shows it.
C35_EndedAfterException ==
    /\ \E i \in 1..Len(flights) : ~flights[i].open /\ ~flights[i].fails
    /\ workflow # canvas
    /\ ~isProcessing /\ currentStatus = Null
    /\ ~rendered.isProcessing

\* C36: whenever no request is in flight (isProcessing is false),
\* currentStatus is null: no status callback sets a status after its turn
\* has finished, whatever the sends and the stream events.
C36_IdleHasNoStatus == ~isProcessing => currentStatus = Null

\* A turn of the orchestration adapter that reported a status, streamed its
\* two fragments and has ended.
C36_StatusCleared ==
    /\ ~isProcessing
    /\ \E i \in 1..Len(flights) :
          /\ ~flights[i].open
          /\ flights[i].outbound.adapter = "python"
          /\ flights[i].delivered = <<<<"H", "e", "l">>, <<"l", "o">>>>

(***************************************************************************)
(* Properties of the parsing logic                                         *)
(***************************************************************************)
Resolved == xpc \in {"resolved", "done"}

\* The issues of a list without their identifiers.
Described(list) ==
    [i \in 1..Len(list) |-> [nodeId |-> list[i].nodeId, severity |-> list[i].severity,
                             message |-> list[i].message, fixSuggestion |-> list[i].fixSuggestion]]

TruncatedRelated ==
    /\ Contains(textResponse, RelatedRegions.truncated)
    /\ ~Contains(textResponse, RelatedRegions.plain)

\* C17: sendMessageToComfyAgent returns normally whatever the regions of the
\* text are, and a region that is well formed yields what it yields by
\* itself, whether the regions of the other kinds are missing, malformed or
\* well formed; a text with a valid ISSUES_JSON region and a
\* RELATED_QUESTIONS region that is cut off yields issues and no related
\* questions.
C17_IndependentExtraction ==
    Resolved =>
        /\ response # ErrorResponse
        /\ \A g \in {GraphRegions.plain, GraphRegions.commented} :
              Contains(textResponse, g) => response.updatedWorkflow = ExtractWorkflow(g)
        /\ \A i \in {IssuesRegions.plain, IssuesRegions.fenced} :
              Contains(textResponse, i) =>
                  /\ response.issues.v # <<>>
                  /\ Described(response.issues.v) = Described(ExtractIssues(i, <<41, 41>>).v)
                  /\ TruncatedRelated => response.relatedQuestions = Arr(<<>>)
        /\ Contains(textResponse, RelatedRegions.plain) =>
              response.relatedQuestions = ExtractRelated(RelatedRegions.plain)
        /\ Contains(textResponse, ActionsRegions.plain) =>
              response.suggestedActions = ExtractActions(ActionsRegions.plain)

\* The content of the first fenced json block of the text.
FirstBlock == GroupOf(MatchFencedJson(textResponse))

FirstBlockFails == FirstBlock # <<>> /\ ~JSONparse(cleanJsonString(FirstBlock)).ok

\* C18: when the first fenced json block of the text does not parse after
\* the cleanup, sendMessageToComfyAgent returns normally with updatedWorkflow
\* null, and handleSendMessage leaves the workflow state and the canvas as
\* they were.
C18_UnparsableBlock ==
    Resolved /\ FirstBlockFails =>
        /\ response # ErrorResponse
        /\ response.updatedWorkflow = Null
        /\ workflow = CurrentWorkflow
        /\ canvas = CurrentWorkflow

\* handleSendMessage has finished with a response to a text whose first
\* block fails to parse.
C18_BlockIgnored ==
    /\ xpc = "done"
    /\ FirstBlockFails
    /\ response.updatedWorkflow = Null
    /\ workflow = CurrentWorkflow /\ canvas = CurrentWorkflow

\* C32: a text whose only fenced json block is the array of its ISSUES_JSON
\* region yields no graph: updatedWorkflow is null, handleSendMessage leaves
\* the workflow state and the canvas as they were, and the issues are those
\* of the region.
C32_TaggedBlockNoGraph ==
    (Resolved /\ \E r \in Forms(RelatedRegions), a \in Forms(ActionsRegions) :
                    textResponse = Assemble(GraphRegions.missing, IssuesRegions.fenced, r, a, TRUE)) =>
        /\ response.updatedWorkflow = Null
        /\ workflow = CurrentWorkflow
        /\ canvas = CurrentWorkflow
        /\ Described(response.issues.v) = Described(ExtractIssues(IssuesRegions.fenced, <<41, 41>>).v)

\* C33: cleanJsonString preserves valid JSON: when the first fenced json
\* block of the text parses as it is, also with `//` or a comma before a
\* brace inside a string, the cleaned block parses to the same value, which
\* is the updatedWorkflow of the response.
C33_ValidJsonPreserved ==
    (Resolved /\ FirstBlock # <<>> /\ JSONparse(FirstBlock).ok) =>
        /\ JSONparse(cleanJsonString(FirstBlock)) = JSONparse(FirstBlock)
        /\ response.updatedWorkflow = JSONparse(FirstBlock).val

\* The JSON of the blocks with comments and trailing commas, without them.
PlainJson ==
    [ commented |-> <<"{", " ", "\n", "\"", "n", "o", "d", "e", "s", "\"", ":", "[", "1", "]", " ", "\n", "}">>,
      address |-> <<"{", "\"", "u", "\"", ":", "\"", "h", "t", "t", "p", ":", "/", "/", "h", "\"", "}">> ]

\* C19: a fenced json block that is JSON but for `//` comments, `/* */`
\* comments and commas before a closing bracket is parsed as the replacement
\* graph, and its value is the value of the JSON without them.
C19_CommentsAndCommas ==
    Resolved =>
        \A k \in DOMAIN PlainJson :
            FirstBlock = GroupOf(MatchFencedJson(GraphRegions[k])) =>
                response.updatedWorkflow = JSONparse(PlainJson[k]).val

\* The member of an element, or a default when the element has none.
MemberOr(element, k, default) ==
    IF Get(element, k) = Undefined THEN default ELSE Get(element, k)

\* The issue at place i of a list is the element at place i of an array,
\* but for its identifier.
IssueOf(issue, element) ==
    /\ issue.nodeId = MemberOr(element, <<"n", "o", "d", "e", "I", "d">>, Null)
    /\ issue.severity = MemberOr(element, <<"s", "e", "v", "e", "r", "i", "t", "y">>,
                                 Str(<<"w", "a", "r", "n", "i", "n", "g">>))
    /\ issue.message = MemberOr(element, <<"m", "e", "s", "s", "a", "g", "e">>,
                                Str(<<"U", "n", "k", "n", "o", "w", "n", " ", "i", "s", "s", "u", "e">>))
    /\ issue.fixSuggestion = Get(element, <<"f", "i", "x", "S", "u", "g", "g", "e", "s", "t", "i", "o", "n">>)

\* The ISSUES_JSON region of the text, parsed after the cleanup.
IssuesRegion == GroupOf(MatchTagged(textResponse, IssuesTag))
IssuesParsed == JSONparse(cleanJsonString(IssuesRegion))

IssueObjects ==
    /\ IssuesRegion # <<>>
    /\ IssuesParsed.ok
    /\ IssuesParsed.val.t = "arr"
    /\ \A i \in 1..Len(IssuesParsed.val.v) : IssuesParsed.val.v[i].t = "obj"

\* C20: the issues of a response are the elements of the parsed ISSUES_JSON
\* array, one WorkflowIssue for each in the order of the array, with the
\* severity `warning` and the nodeId null where the element has none, and
\* with identifiers that differ from each other; when the region does not
\* parse the list is empty, and no error is raised.
C20_IssuesNormalized ==
    Resolved =>
        /\ response # ErrorResponse
        /\ IF IssueObjects
           THEN /\ Len(response.issues.v) = Len(IssuesParsed.val.v)
                /\ \A i \in 1..Len(response.issues.v) :
                      /\ IssueOf(response.issues.v[i], IssuesParsed.val.v[i])
                      /\ \A j \in 1..Len(response.issues.v) :
                            i # j => response.issues.v[i].id # response.issues.v[j].id
           ELSE response.issues = Arr(<<>>)

\* Two issues made at the same reading of the clock, the second from an
\* element without severity and nodeId.
C20_DefaultsAndIdentifiers ==
    /\ xpc = "resolved"
    /\ IssueObjects
    /\ Len(response.issues.v) = 2
    /\ response.issues.v[1].id = Str(IssueId(41, 0))
    /\ response.issues.v[2].id = Str(IssueId(41, 1))
    /\ response.issues.v[1].severity = Str(<<"e", "r", "r", "o", "r">>)
    /\ response.issues.v[2].severity = Str(<<"w", "a", "r", "n", "i", "n", "g">>)
    /\ response.issues.v[2].nodeId = Null

\* A tagged region that the parsing logic has matched has left the display
\* text: its label and its bracketed payload.
RegionRemoved(m, tag) ==
    m.found =>
        /\ ~Contains(response.chatResponse, tag)
        /\ m.group # <<>> => ~Contains(response.chatResponse, m.group)

\* C21: the display text of a response is the text without the regions that
\* were matched: the placeholder stands where the fenced json block was, and
\* of a matched ISSUES_JSON, SUGGESTED_ACTIONS or RELATED_QUESTIONS region
\* neither the label nor the payload is left, whatever the other regions are
\* and whether or not the array is in a fence.
C21_DisplayText ==
    Resolved =>
        /\ MatchFencedJson(textResponse).found =>
              /\ Contains(response.chatResponse, i18nText("updateMessage"))
              /\ ~Contains(response.chatResponse, MatchFencedJson(textResponse).group)
        /\ RegionRemoved(MatchTagged(textResponse, IssuesTag), IssuesTag)
        /\ RegionRemoved(MatchActions(textResponse), ActionsTag)
        /\ RegionRemoved(MatchTagged(textResponse, RelatedTag), RelatedTag)

\* An item without the quotes around it.
RECURSIVE Bare(_)
Bare(item) ==
    IF item # <<>> /\ Head(item) \in {"'", "\""} THEN Bare(Tail(item))
    ELSE IF item # <<>> /\ item[Len(item)] \in {"'", "\""} THEN Bare(SubSeq(item, 1, Len(item) - 1))
    ELSE item

\* The items of the first SUGGESTED_ACTIONS list of a text.
ListedActions(text) ==
    LET Items(pieces) == [i \in 1..Len(pieces) |-> Str(Bare(trim(pieces[i])))]
    IN Items(splitOn(MatchActions(text).group, ","))

\* C29: when the text holds a SUGGESTED_ACTIONS list that is not empty, the
\* suggested actions of the response are the comma-separated items of the
\* first such list, in order, each without the whitespace and the quotes
\* around it and with the characters inside it kept.
C29_SuggestedActions ==
    (Resolved /\ MatchActions(textResponse).found /\ MatchActions(textResponse).group # <<>>)
        => response.suggestedActions = Arr(ListedActions(textResponse))

\* C37: on every successful return of sendMessageToComfyAgent the
\* suggested actions are not empty: when the text has no SUGGESTED_ACTIONS
\* list, or the brackets of the first one hold nothing, they are the two
\* default actions, undo and explain changes.
C37_NeverWithoutActions ==
    (Resolved /\ response # ErrorResponse) =>
        /\ Len(response.suggestedActions.v) > 0
        /\ (~MatchActions(textResponse).found \/ MatchActions(textResponse).group = <<>>) =>
               response.suggestedActions = Arr(<<Str(i18nText("actionUndo")), Str(i18nText("actionExplainChanges"))>>)

\* A successful return for a text whose SUGGESTED_ACTIONS list is empty.
C37_EmptyListDefaults ==
    /\ Resolved /\ response # ErrorResponse
    /\ MatchActions(textResponse).found
    /\ MatchActions(textResponse).group = <<>>
    /\ Len(response.suggestedActions.v) = 2

\* C38: a completed response whose issues are empty or absent leaves the
\* issues and the tab of the visualizer as they were; a response with at
\* least one issue replaces the whole list by exactly its issues.
C38_IssuesFrame ==
    [][(xpc = "resolved" /\ xpc' = "done") =>
          IF response.issues.t = "arr" /\ Len(response.issues.v) >= 1
          THEN issues' = response.issues.v
          ELSE issues' = issues /\ visualizerTab' = visualizerTab]_allVars

\* A response without issues has been taken over beside an earlier issue of
\* a runtime error, which is kept.
C38_EarlierIssuesKept ==
    /\ xpc = "done"
    /\ response # ErrorResponse
    /\ response.issues.v = <<>>
    /\ issues = EarlierIssues
    /\ visualizerTab = "preview"

(***************************************************************************)
(* Reference readings of a template, used to state the properties of       *)
(* resolveTemplate.                                                        *)
(***************************************************************************)
IdentChars ==
    {"a", "b", "c", "d", "e", "f", "g", "h", "i", "j", "k", "l", "m", "n", "o",
     "p", "q", "r", "s", "t", "u", "v", "w", "x", "y", "z",
     "A", "B", "C", "D", "E", "F", "G", "H", "I", "J", "K", "L", "M", "N", "O",
     "P", "Q", "R", "S", "T", "U", "V", "W", "X", "Y", "Z", "_"} \cup Digits

\* Index of the last character of the identifier that starts at i.
NameEnd(s, i) == SkipOver(s, i, IdentChars) - 1

\* The name of the placeholder token whose $ is at i (empty: no token).
TokenName(s, i) == IF s[i] = "$" THEN SubSeq(s, i + 1, NameEnd(s, i + 1)) ELSE <<>>

HasKey(vs, k) == \E n \in 1..Len(vs) : vs[n].k = k
ValueOf(vs, k) == (CHOOSE n \in 1..Len(vs) : vs[n].k = k)
ValueText(val) == IF IsObjectType(val) THEN stringify(val) ELSE String(val)

\* One pass over the template: every whole token $name whose name is a key
\* is replaced by the text of its value, a composite value taking the
\* quotes around the token with it; every other character is kept.
RECURSIVE TokenSubstFrom(_, _, _)
TokenSubstFrom(s, vs, i) ==
    IF i > Len(s) THEN <<>>
    ELSE LET quoted == /\ s[i] \in {"\"", "'"}
                       /\ i + 1 <= Len(s)
                       /\ TokenName(s, i + 1) # <<>>
                       /\ HasKey(vs, TokenName(s, i + 1))
                       /\ IsObjectType(vs[ValueOf(vs, TokenName(s, i + 1))].val)
                       /\ NameEnd(s, i + 2) + 1 <= Len(s)
                       /\ s[NameEnd(s, i + 2) + 1] = s[i]
             name == TokenName(s, i)
         IN IF quoted
            THEN ValueText(vs[ValueOf(vs, TokenName(s, i + 1))].val)
                 \o TokenSubstFrom(s, vs, NameEnd(s, i + 2) + 2)
            ELSE IF name # <<>> /\ HasKey(vs, name)
            THEN ValueText(vs[ValueOf(vs, name)].val)
                 \o TokenSubstFrom(s, vs, i + 1 + Len(name))
            ELSE <<s[i]>> \o TokenSubstFrom(s, vs, i + 1)

TokenSubst(s, vs) == TokenSubstFrom(s, vs, 1)

\* One pass over the template: every occurrence of the characters pat is
\* replaced by the characters text, verbatim.
RECURSIVE LiteralSubstFrom(_, _, _, _)
LiteralSubstFrom(s, pat, text, i) ==
    IF i > Len(s) THEN <<>>
    ELSE IF StartsWithAt(s, i, pat)
         THEN text \o LiteralSubstFrom(s, pat, text, i + Len(pat))
    ELSE <<s[i]>> \o LiteralSubstFrom(s, pat, text, i + 1)

DollarFree(s) == \A i \in 1..Len(s) : s[i] # "$"
KeySet(vs) == {vs[n].k : n \in 1..Len(vs)}
TokenStarts(s) == {i \in 1..Len(s) : TokenName(s, i) # <<>>}

TokenNames(s) == {TokenName(s, i) : i \in TokenStarts(s)}

\* C1: for a template that contains both $model and $modelName, with keys
\* model and modelName (in either order) bound to scalars, every $modelName
\* is replaced by the value of modelName and every $model by the value of
\* model: the output is the token-wise substitution.
C1_TokenBoundaries ==
    (/\ tpc = "returned"
     /\ KeySet(vars) = {K_model, K_modelName}
     /\ TokenNames(templateStr) = {K_model, K_modelName}
     /\ \A n \in 1..Len(vars) : DollarFree(ValueText(vars[n].val)))
    => result = TokenSubst(templateStr, vars)

\* C2: with one key bound to a composite value, the placeholder written
\* bare, in double quotes or in single quotes is replaced, quotes included,
\* by the compact JSON of the value.
C2_CompositeUnquoted ==
    (/\ tpc = "returned"
     /\ Len(vars) = 1
     /\ IsObjectType(vars[1].val)
     /\ \A i \in TokenStarts(templateStr) : TokenName(templateStr, i) = vars[1].k)
    => result = TokenSubst(templateStr, vars)

\* C3: with one key bound to a scalar, every occurrence of $key is replaced
\* by exactly the characters of the value and nothing else changes.
C3_ScalarLiteral ==
    (/\ tpc = "returned"
     /\ Len(vars) = 1
     /\ ~IsObjectType(vars[1].val))
    => result = LiteralSubstFrom(templateStr, <<"$">> \o vars[1].k,
                                 String(vars[1].val), 1)

\* C4: a placeholder token whose name is not a key is found unchanged in the
\* output, at the place the text before it resolves to.
C4_UnknownKept ==
    (/\ tpc = "returned"
     /\ \A n \in 1..Len(vars) : DollarFree(ValueText(vars[n].val)))
    => \A i \in TokenStarts(templateStr) :
          ~HasKey(vars, TokenName(templateStr, i))
          => StartsWithAt(result,
                          Len(TokenSubst(SubSeq(templateStr, 1, i - 1), vars)) + 1,
                          <<"$">> \o TokenName(templateStr, i))

\* No character pair of the text is a replacement pattern of replace().
PatternFree(text) == \A j \in 1..Len(text) : ~IsPatternAt(text, j)

\* C34: resolveTemplate is a simultaneous substitution: the output is the
\* one pass over the original template that replaces each placeholder by
\* its value, so a value that holds the placeholder of another key is found
\* verbatim in the output, whatever the order of the keys (templates whose
\* tokens are keys, keys of which none begins another, values without
\* replacement patterns).
C34_SimultaneousSubstitution ==
    (/\ tpc = "returned"
     /\ TokenNames(templateStr) \subseteq KeySet(vars)
     /\ ~({K_model, K_modelName} \subseteq KeySet(vars))
     /\ \A n \in 1..Len(vars) : PatternFree(ValueText(vars[n].val)))
    => result = TokenSubst(templateStr, vars)

====
